---- MODULE Spec2Model ----
(***************************************************************************)
(* dbpibus: the view queue, the per-tick main loop, the animation          *)
(* sequencer, the views and the service menu, as a state machine.          *)
(*                                                                         *)
(* Times are milliseconds, as in the source (time.time() * 1000), and are  *)
(* kept relative to the clock of the latest tick: a tick that comes gap ms *)
(* after the one before first lowers every stored timestamp by gap, then   *)
(* runs the loop body with the clock at 0.  The code only compares stored  *)
(* timestamps with the clock: a menu's save time more than                 *)
(* _SAVE_DISPLAY_MILLIS in the past compares like one at that distance,    *)
(* and a frame's time in the past like one 1 ms in the past, so they are   *)
(* kept there.  One tick action is one iteration of the main loop of       *)
(* dbpibus.py.  A Python exception that nothing catches ends the program:  *)
(* it is recorded in the variable error and no further step is taken.      *)
(***************************************************************************)
EXTENDS Integers, Sequences, FiniteSets, TLC

VARIABLES
    hour,                   \* datetime.now(_PACIFIC_ZONEINFO).hour
    latest_stats,           \* t.latest_stats: what the fetcher published last
    views,                  \* the heap list of dbpibus.py
    current_shift,          \* dbpibus.py global
    previous_buttons,       \* dbpibus.py global
    previous_stats,         \* dbpibus.py global
    last_known_lcd_setting, \* dbpibus.py global
    lcd_color,              \* lcd.color
    lcd_message,            \* lcd.message, as <<line1, line2>>
    config,                 \* config._current_config
    error,                  \* "none", or the exception that ended the program
    last,                   \* what the latest tick did (observation only)
    ev_prev,                \* prev_data and curr_data of make_views_for_events
    ev_curr,                \*   (SpecEvents only)
    ev_result,              \* whether it was called, and the views it returned
    anim,                   \* a SimpleAnimationView driven on its own (SpecAnim only)
    unset_attr,             \* what reading an attribute no __init__ assigned gives,
                            \*   "unread" until the first such read
    user,                   \* what the person at the buttons is doing (SpecBack only)
    idle,                   \* a NormalView's donation count-up (SpecIdle only)
    fetcher_thread,         \* t, the FetcherThread: alive or not, and its local results
    loop_read,              \* the loop's local latest_stats after line 117 (SpecThread only)
    is_aware_of_dead_fetcher_thread, \* dbpibus.py global
    critical_logged,        \* how many critical messages the loop has logged
    store                   \* the config file and the latest call on it (SpecConfig only)

vars == <<hour, latest_stats, views, current_shift, previous_buttons,
          previous_stats, last_known_lcd_setting, lcd_color, lcd_message,
          config, error, last, unset_attr, user, idle, fetcher_thread, loop_read,
          is_aware_of_dead_fetcher_thread, critical_logged, store,
          ev_prev, ev_curr, ev_result, anim>>

\* the variables of the fetcher thread's watch, of the idle view and of the store
thread_vars == <<fetcher_thread, loop_read, is_aware_of_dead_fetcher_thread,
                 critical_logged>>

(***************************************************************************)
(* Bounds of the model.                                                    *)
(***************************************************************************)
\* most views in the queue at once, in Spec, in SpecQueue and in SpecShift
MaxViews == 3
QueueMaxViews == 4
ShiftMaxViews == 2
\* leading frames kept of every animation table
AnimFrames == 2
\* largest value of a game counter in a snapshot
MaxCount == 2
\* most frames in a frame list of SpecAnim, and the latest time of a call
MaxFrames == 3
MaxNow == 9

\* time between two ticks: the loop sleeps 35 ms and adds what the body takes;
\* two sample gaps, a short one and a lag that passes over frames
TickGaps == {500, 2000}

(***************************************************************************)
(* Python's None, for each type that may hold it.                          *)
(***************************************************************************)
None == [none |-> TRUE]
NoLine == "<None>"

\* an attribute that no __init__ has assigned
Unset == [unset |-> TRUE]

Min(a, b) == IF a < b THEN a ELSE b

(***************************************************************************)
(* button_handler.py                                                       *)
(***************************************************************************)
ButtonData(b, m, p, s) == [back |-> b, minus |-> m, plus |-> p, select |-> s]

(***************************************************************************)
(* config.py                                                               *)
(***************************************************************************)
ShiftAnim == {"Always", "OnlyInSeason", "Never"}
EventAnim == {"Always", "Never"}
LcdColor == {"CurrentShift", "DawnGuard", "AlphaFlight", "NightWatch",
             "ZetaShift", "OmegaShift"}
ShowTime == {"Yes", "No"}
TimeFormat == {"12Hour", "24Hour"}
DateFormat == {"YYYYMMDD", "DDMMYYYY", "MMDDYYYY"}
PointsCrashes == {"Separate", "PTCR"}

ConfigKey == {"ShowShiftAnim", "ShowEventAnim", "LcdColor", "ShowTimeInRun",
              "ShowTimeInPreseason", "ShowTimeInOffseason", "TimeFormat",
              "DateFormat", "PointsCrashes"}

\* the enum _validate_or_raise builds the value in, per key
EnumOf(key) ==
    CASE key = "ShowShiftAnim" -> ShiftAnim
      [] key = "ShowEventAnim" -> EventAnim
      [] key = "LcdColor" -> LcdColor
      [] key \in {"ShowTimeInRun", "ShowTimeInPreseason", "ShowTimeInOffseason"} -> ShowTime
      [] key = "TimeFormat" -> TimeFormat
      [] key = "DateFormat" -> DateFormat
      [] key = "PointsCrashes" -> PointsCrashes
      [] OTHER -> {}

_validate(key, value) == value \in EnumOf(key)

_make_default_config ==
    [k \in ConfigKey |->
        CASE k = "ShowShiftAnim" -> "Always"
          [] k = "ShowEventAnim" -> "Always"
          [] k = "LcdColor" -> "CurrentShift"
          [] k \in {"ShowTimeInRun", "ShowTimeInPreseason", "ShowTimeInOffseason"} -> "No"
          [] k = "TimeFormat" -> "12Hour"
          [] k = "DateFormat" -> "YYYYMMDD"
          [] k = "PointsCrashes" -> "Separate"]

get_setting(cfg, key) == cfg[key]

\* load_config, lines 138-202, on the JSON object in the file (None: there is
\* no file): the defaults, updated with the file's entries, each of the nine
\* keys pulled back to its default when its value fails validation
load_config(file) ==
    IF file = None THEN _make_default_config
    ELSE LET pristine_defaults == _make_default_config
             new_config == [k \in ConfigKey |->
                               IF k \in DOMAIN file THEN file[k]
                               ELSE pristine_defaults[k]]
         IN  [k \in ConfigKey |->
                 IF _validate(k, new_config[k]) THEN new_config[k]
                 ELSE pristine_defaults[k]]

\* whatever value comes is stored
set_setting_unchecked(cfg, key, value) ==
    [config |-> [k \in DOMAIN cfg \cup {key} |-> IF k = key THEN value ELSE cfg[k]],
     error |-> "none"]

\* set_setting: the validated value is stored (and written to disk); an
\* invalid one raises and stores nothing.
set_setting(cfg, key, value) ==
    IF _validate(key, value)
    THEN [config |-> [cfg EXCEPT ![key] = value], error |-> "none"]
    ELSE [config |-> cfg, error |-> "ValueError"]

(***************************************************************************)
(* shift_data.py                                                           *)
(***************************************************************************)
Shift == {"DAWN_GUARD", "ALPHA_FLIGHT", "NIGHT_WATCH", "ZETA_SHIFT", "OMEGA_SHIFT"}

SCREEN_COLORS(shift) ==
    CASE shift = "DAWN_GUARD" -> <<80, 10, 0>>
      [] shift = "ALPHA_FLIGHT" -> <<95, 0, 0>>
      [] shift = "NIGHT_WATCH" -> <<20, 20, 90>>
      [] shift = "ZETA_SHIFT" -> <<80, 0, 60>>
      [] shift = "OMEGA_SHIFT" -> <<40, 40, 40>>

\* the hour 6 still counts as the night's
get_current_shift_late(hr) ==
    IF hr >= 0 /\ hr <= 6 THEN "ZETA_SHIFT"
    ELSE IF hr >= 6 /\ hr < 12 THEN "DAWN_GUARD"
    ELSE IF hr >= 12 /\ hr < 18 THEN "ALPHA_FLIGHT"
    ELSE "NIGHT_WATCH"

get_current_shift(hr) ==
    IF hr >= 0 /\ hr < 6 THEN "ZETA_SHIFT"
    ELSE IF hr >= 6 /\ hr < 12 THEN "DAWN_GUARD"
    ELSE IF hr >= 12 /\ hr < 18 THEN "ALPHA_FLIGHT"
    ELSE "NIGHT_WATCH"

\* dbpibus.py: config_shift_to_data_shift ("ValueError" stands for the raise)
config_shift_to_data_shift(config_shift) ==
    CASE config_shift = "DawnGuard" -> "DAWN_GUARD"
      [] config_shift = "AlphaFlight" -> "ALPHA_FLIGHT"
      [] config_shift = "NightWatch" -> "NIGHT_WATCH"
      [] config_shift = "ZetaShift" -> "ZETA_SHIFT"
      [] config_shift = "OmegaShift" -> "OMEGA_SHIFT"
      [] OTHER -> "ValueError"

Frame(d, l1, l2) == [duration |-> d, line1 |-> l1, line2 |-> l2]

\* the first AnimFrames frames of a table
Leading(table) == SubSeq(table, 1, Min(Len(table), AnimFrames))

\* The animation tables, by their leading frames.
DAWN_GUARD_ANIM ==
    << Frame(500, " DAWN           ", "                "),
       Frame(500, " DAWN DAWN      ", "                "),
       Frame(500, " DAWN DAWN DAWN ", "                ") >>
ALPHA_FLIGHT_ANIM ==
    << Frame(1000, "  Caw!          ", "                "),
       Frame(800,  "  Caw!          ", "           Caw! "),
       Frame(600,  "  Caw!  Caw!    ", "           Caw! ") >>
NIGHT_WATCH_ANIM ==
    << Frame(1000, " I, [recruit's  ", "   name], do    "),
       Frame(1000, " solemnly swear ", " by [recruit's  "),
       Frame(900,  "deity of choice]", " to uphold the  ") >>
ZETA_SHIFT_ANIM ==
    << Frame(75, "L               ", "                "),
       Frame(75, "LL              ", "                "),
       Frame(75, "LLL             ", "                ") >>
OMEGA_SHIFT_ANIM ==
    << Frame(100, "     O          ", "       <>       "),
       Frame(100, "     O          ", "      <<>>      "),
       Frame(100, "     O          ", "     <<<>>>     ") >>

(***************************************************************************)
(* event_data.py: the tables                                               *)
(***************************************************************************)
POINT_GET_ANIM ==
    << Frame(100, "   -            ", "                "),
       Frame(100, "   +            ", "                "),
       Frame(100, "   P|           ", "                ") >>
BUG_SPLAT_ANIM ==
    << Frame(100, "        S       ", "                "),
       Frame(100, "        SP      ", "                "),
       Frame(100, "     G  SPL     ", "                ") >>
BUS_STOP_ANIM ==
    << Frame(100, "               B", "                "),
       Frame(150, "              BU", "                "),
       Frame(400, "             BUS", "                ") >>
CRASH_ANIM ==
    << Frame(100, "A              S", "                "),
       Frame(100, "RA            SH", "                "),
       Frame(100, "CRA          SH!", "                ") >>

(***************************************************************************)
(* base_view.py: the ordering of views, and heapq as dbpibus.py uses it    *)
(***************************************************************************)
\* BaseView.__lt__
lt(self, other) == self.priority < other.priority

\* heapq._siftdown: positions are 0-based as in Python, sequences 1-based.
RECURSIVE _siftdown_loop(_, _, _, _)
_siftdown_loop(heap, startpos, pos, newitem) ==
    IF pos > startpos
    THEN LET parentpos == (pos - 1) \div 2
             parent == heap[parentpos + 1]
         IN  IF lt(newitem, parent)
             THEN _siftdown_loop([heap EXCEPT ![pos + 1] = parent],
                                 startpos, parentpos, newitem)
             ELSE [heap EXCEPT ![pos + 1] = newitem]
    ELSE [heap EXCEPT ![pos + 1] = newitem]

_siftdown(heap, startpos, pos) == _siftdown_loop(heap, startpos, pos, heap[pos + 1])

\* heapq._siftup: bubble the smaller child up to a leaf, then sift down.
RECURSIVE _siftup_loop(_, _, _, _)
_siftup_loop(heap, startpos, pos, newitem) ==
    LET endpos == Len(heap)
        childpos == 2 * pos + 1
    IN  IF childpos < endpos
        THEN LET rightpos == childpos + 1
                 c == IF rightpos < endpos /\ ~lt(heap[childpos + 1], heap[rightpos + 1])
                      THEN rightpos ELSE childpos
             IN  _siftup_loop([heap EXCEPT ![pos + 1] = heap[c + 1]], startpos, c, newitem)
        ELSE _siftdown([heap EXCEPT ![pos + 1] = newitem], startpos, pos)

_siftup(heap, pos) == _siftup_loop(heap, pos, pos, heap[pos + 1])

\* a plausible slip: append without restoring the heap order
heappush_append_only(heap, item) == Append(heap, item)

heappush(heap, item) == _siftdown(Append(heap, item), 0, Len(heap))

heappop(heap) ==
    LET lastelt == heap[Len(heap)]
        rest == SubSeq(heap, 1, Len(heap) - 1)
    IN  IF Len(rest) > 0
        THEN _siftup([rest EXCEPT ![1] = lastelt], 0)
        ELSE rest

(***************************************************************************)
(* simple_animation_view.py: the sequencer                                 *)
(***************************************************************************)
Entry(t, l1, l2) == [time |-> t, line1 |-> l1, line2 |-> l2]

\* every frame is stamped with the time at which it ends
RECURSIVE _prepare_loop_stamps_end(_, _, _)
_prepare_loop_stamps_end(anim_list, next_time_millis, result) ==
    IF anim_list = <<>>
    THEN [deque |-> Append(result, Entry(next_time_millis, NoLine, NoLine)),
          error |-> "none"]
    ELSE LET f == Head(anim_list)
         IN  IF f.line1 = NoLine \/ f.line2 = NoLine
             THEN [deque |-> result, error |-> "ValueError"]
             ELSE _prepare_loop_stamps_end(
                      Tail(anim_list), next_time_millis + f.duration,
                      Append(result, Entry(next_time_millis + f.duration,
                                           f.line1, f.line2)))

\* the closing entry is stamped like the last frame
RECURSIVE _prepare_loop_closes_at_last_frame(_, _, _)
_prepare_loop_closes_at_last_frame(anim_list, next_time_millis, result) ==
    IF anim_list = <<>>
    THEN [deque |-> Append(result, Entry(IF result = <<>> THEN next_time_millis
                                         ELSE result[Len(result)].time,
                                         NoLine, NoLine)),
          error |-> "none"]
    ELSE LET f == Head(anim_list)
         IN  IF f.line1 = NoLine \/ f.line2 = NoLine
             THEN [deque |-> result, error |-> "ValueError"]
             ELSE _prepare_loop_closes_at_last_frame(
                      Tail(anim_list), next_time_millis + f.duration,
                      Append(result, Entry(next_time_millis, f.line1, f.line2)))

RECURSIVE _prepare_loop(_, _, _)
_prepare_loop(anim_list, next_time_millis, result) ==
    IF anim_list = <<>>
    THEN [deque |-> Append(result, Entry(next_time_millis, NoLine, NoLine)),
          error |-> "none"]
    ELSE LET f == Head(anim_list)
         IN  IF f.line1 = NoLine \/ f.line2 = NoLine
             THEN [deque |-> result, error |-> "ValueError"]
             ELSE _prepare_loop(Tail(anim_list), next_time_millis + f.duration,
                                Append(result, Entry(next_time_millis, f.line1, f.line2)))

\* SimpleAnimationView._prepare_animation with start_time_millis = the clock
_prepare_animation(anim_list, start_time_millis) ==
    _prepare_loop(anim_list, start_time_millis, <<>>)

\* a plausible slip: the loop tests the time of the leading entry
RECURSIVE _find_current_frame_tests_lead(_, _, _)
_find_current_frame_tests_lead(anim_deque, current_frame, current_time_millis) ==
    IF Len(anim_deque) > 1 /\ anim_deque[1].time < current_time_millis
    THEN _find_current_frame_tests_lead(Tail(anim_deque), Head(anim_deque),
                                        current_time_millis)
    ELSE [deque |-> anim_deque, current_frame |-> current_frame]

\* the while loop of _do_animation_frame: current_frame is the entry that
\* popleft() returned last
RECURSIVE _find_current_frame(_, _, _)
_find_current_frame(anim_deque, current_frame, current_time_millis) ==
    IF Len(anim_deque) > 1 /\ anim_deque[2].time < current_time_millis
    THEN _find_current_frame(Tail(anim_deque), Head(anim_deque), current_time_millis)
    ELSE [deque |-> anim_deque, current_frame |-> current_frame]

\* a plausible slip: the sentinel is displayed as one more frame
_do_animation_frame_plays_sentinel(anim_deque, current_time_millis) ==
    IF Len(anim_deque) = 0
    THEN [deque |-> anim_deque, finished |-> TRUE, shown |-> None]
    ELSE LET r == _find_current_frame(anim_deque, anim_deque[1], current_time_millis)
             cf == r.current_frame
         IN  IF Len(r.deque) = 0
             THEN [deque |-> r.deque, finished |-> TRUE, shown |-> None]
             ELSE [deque |-> r.deque, finished |-> FALSE,
                   shown |-> IF cf.line1 = NoLine \/ cf.line2 = NoLine THEN None
                             ELSE <<cf.line1, cf.line2>>]

\* SimpleAnimationView._do_animation_frame: the deque it leaves, what it
\* returns, and the lines it displays (None when it displays nothing)
_do_animation_frame(anim_deque, current_time_millis) ==
    IF Len(anim_deque) = 0
    THEN [deque |-> anim_deque, finished |-> TRUE, shown |-> None]
    ELSE LET r == _find_current_frame(anim_deque, anim_deque[1], current_time_millis)
             cf == r.current_frame
         IN  IF Len(r.deque) = 0 \/ cf.line1 = NoLine \/ cf.line2 = NoLine
             THEN [deque |-> r.deque, finished |-> TRUE, shown |-> None]
             ELSE [deque |-> r.deque, finished |-> FALSE,
                   shown |-> <<cf.line1, cf.line2>>]

(***************************************************************************)
(* The views.  One record shape serves every class:                        *)
(*   kind, name, priority   the class, its name and its priority           *)
(*   seq                    the order in which the view entered the queue  *)
(*                          (observation only: nothing in the code reads   *)
(*                          it), 0 while the view is not queued            *)
(*   anim_sequence          SimpleAnimationView._anim_sequence             *)
(*   anim_is_none           _anim_deque is None                            *)
(*   anim_deque             _anim_deque otherwise                          *)
(*   prev                   _previous_buttons                              *)
(*   menu_stack             ServiceMenuView._menu_stack                    *)
(***************************************************************************)
View(kind, name, priority, anim_sequence, menu_stack) ==
    [kind |-> kind, name |-> name, priority |-> priority, seq |-> 0,
     anim_sequence |-> anim_sequence, anim_is_none |-> TRUE, anim_deque |-> <<>>,
     prev |-> None, menu_stack |-> menu_stack]

\* SimpleAnimationView.__init__
SimpleAnimationView(anim_sequence, name, priority) ==
    View("SimpleAnimationView", name, priority, anim_sequence, <<>>)

\* shift_data.py: make_view_for_shift(lcd, shift)
make_view_for_shift(shift) ==
    CASE shift = "DAWN_GUARD" -> SimpleAnimationView(Leading(DAWN_GUARD_ANIM), "Dawn Transition", 5)
      [] shift = "ALPHA_FLIGHT" -> SimpleAnimationView(Leading(ALPHA_FLIGHT_ANIM), "Alpha Transition", 5)
      [] shift = "NIGHT_WATCH" -> SimpleAnimationView(Leading(NIGHT_WATCH_ANIM), "Night Transition", 5)
      [] shift = "ZETA_SHIFT" -> SimpleAnimationView(Leading(ZETA_SHIFT_ANIM), "Zeta Transition", 5)
      [] shift = "OMEGA_SHIFT" -> SimpleAnimationView(Leading(OMEGA_SHIFT_ANIM), "Omega Transition", 5)

\* event_data.py: make_view_for_event(lcd, event, priority)
make_view_for_event(event, priority) ==
    CASE event = "POINT" -> SimpleAnimationView(Leading(POINT_GET_ANIM), "Point Get Animation", priority)
      [] event = "CRASH" -> SimpleAnimationView(Leading(CRASH_ANIM), "Crash Animation", priority)
      [] event = "SPLAT" -> SimpleAnimationView(Leading(BUG_SPLAT_ANIM), "Bug Splat Animation", priority)
      [] event = "STOP" -> SimpleAnimationView(Leading(BUS_STOP_ANIM), "Bus Stop Animation", priority)

\* a plausible slip: the crash test reads the stops counter
make_views_for_events_crash_reads_stops(prev_data, curr_data) ==
    IF prev_data # None /\ curr_data # None
    THEN (IF curr_data.points > prev_data.points
          THEN <<make_view_for_event("POINT", 6)>> ELSE <<>>)
         \o (IF curr_data.splats > prev_data.splats
             THEN <<make_view_for_event("SPLAT", 7)>> ELSE <<>>)
         \o (IF curr_data.stops > prev_data.stops
             THEN <<make_view_for_event("STOP", 8)>> ELSE <<>>)
         \o (IF curr_data.stops > prev_data.stops
             THEN <<make_view_for_event("CRASH", 9)>> ELSE <<>>)
    ELSE <<>>

\* a plausible slip: a counter that has not fallen counts as an increase
make_views_for_events_on_equal(prev_data, curr_data) ==
    IF prev_data # None /\ curr_data # None
    THEN (IF curr_data.points >= prev_data.points
          THEN <<make_view_for_event("POINT", 6)>> ELSE <<>>)
         \o (IF curr_data.splats >= prev_data.splats
             THEN <<make_view_for_event("SPLAT", 7)>> ELSE <<>>)
         \o (IF curr_data.stops >= prev_data.stops
             THEN <<make_view_for_event("STOP", 8)>> ELSE <<>>)
         \o (IF curr_data.crashes >= prev_data.crashes
             THEN <<make_view_for_event("CRASH", 9)>> ELSE <<>>)
    ELSE <<>>

\* event_data.py: make_views_for_events(lcd, prev_data, curr_data)
make_views_for_events(prev_data, curr_data) ==
    IF prev_data # None /\ curr_data # None
    THEN (IF curr_data.points > prev_data.points
          THEN <<make_view_for_event("POINT", 6)>> ELSE <<>>)
         \o (IF curr_data.splats > prev_data.splats
             THEN <<make_view_for_event("SPLAT", 7)>> ELSE <<>>)
         \o (IF curr_data.stops > prev_data.stops
             THEN <<make_view_for_event("STOP", 8)>> ELSE <<>>)
         \o (IF curr_data.crashes > prev_data.crashes
             THEN <<make_view_for_event("CRASH", 9)>> ELSE <<>>)
    ELSE <<>>

\* NormalView.__init__ (priority 9999).  Neither it nor BaseView.__init__
\* assigns _previous_buttons.
NormalView == [View("NormalView", "NormalView", 9999, <<>>, <<>>) EXCEPT !.prev = Unset]

\* ServiceCreditView.__init__: SimpleAnimationView.__init__(lcd, [], "", 5)
ServiceCreditView == View("ServiceCreditView", "ServiceCreditView", 5, <<>>, <<>>)

\* ServiceCreditView._generate_animation: eight times (300, FREE PLAY, PRESS
\* START), (200, FREE PLAY, blank)
RECURSIVE _generate_animation_loop(_)
_generate_animation_loop(i) ==
    IF i = 0 THEN <<>>
    ELSE << Frame(300, "   FREE PLAY    ", "  PRESS START   "),
            Frame(200, "   FREE PLAY    ", "                ") >>
         \o _generate_animation_loop(i - 1)

_generate_animation == Leading(_generate_animation_loop(8))

(***************************************************************************)
(* service_menu_view.py: the menu nodes                                    *)
(***************************************************************************)
Option(title, value) == [title |-> title, value |-> value]
Test(title, type) == [title |-> title, type |-> type]

\* _NODE_STRUCTURE, one entry per node, by title
NodeDef(title) ==
    CASE title = "Main Menu" ->
            [type |-> "CONTAINER", children |-> <<"Adjustments", "Tests">>]
      [] title = "Adjustments" ->
            [type |-> "CONTAINER",
             children |-> <<"Show Shift Anims", "Show Event Anims", "LCD Color">>]
      [] title = "Show Shift Anims" ->
            [type |-> "SETTING", key |-> "ShowShiftAnim",
             options |-> << Option("Always", "Always"),
                            Option("Only in-season", "OnlyInSeason"),
                            Option("Never", "Never") >>]
      [] title = "Show Event Anims" ->
            [type |-> "SETTING", key |-> "ShowEventAnim",
             options |-> << Option("Always", "Always"), Option("Never", "Never") >>]
      [] title = "LCD Color" ->
            [type |-> "SETTING", key |-> "LcdColor",
             options |-> << Option("Current Shift", "CurrentShift"),
                            Option("Dawn Guard", "DawnGuard"),
                            Option("Alpha Flight", "AlphaFlight"),
                            Option("Night Watch", "NightWatch"),
                            Option("Zeta Shift", "ZetaShift"),
                            Option("Omega Shift", "OmegaShift") >>]
      [] title = "Tests" ->
            [type |-> "CONTAINER", children |-> <<"Shift Anims", "Event Anims">>]
      [] title = "Shift Anims" ->
            [type |-> "TESTS",
             tests |-> << Test("Dawn Guard", "SHIFT_DAWN_ANIM"),
                          Test("Alpha Flight", "SHIFT_ALPHA_ANIM"),
                          Test("Night Watch", "SHIFT_NIGHT_ANIM"),
                          Test("Zeta Shift", "SHIFT_ZETA_ANIM"),
                          Test("Omega Shift", "SHIFT_OMEGA_ANIM") >>]
      [] title = "Event Anims" ->
            [type |-> "TESTS",
             tests |-> << Test("Point Get", "EVENT_POINT_ANIM"),
                          Test("Crash", "EVENT_CRASH_ANIM"),
                          Test("Bug Splat", "EVENT_SPLAT_ANIM"),
                          Test("Bus Stop", "EVENT_STOP_ANIM") >>]

_SAVE_DISPLAY_MILLIS == 1000

\* a node object; _current_index is 0 where the class has no such field.
\* _save_time_millis starts at 0, the epoch, which is further in the past
\* than any timestamp the model tells apart.
Node(type, title, index) ==
    [type |-> type, title |-> title, current_index |-> index,
     save_time_millis |-> 0 - _SAVE_DISPLAY_MILLIS]

_TopLevel == Node("TOPLEVEL", "Top Level", 0)

\* _SettingNode.__init__: start on the current setting, on 0 if it is no option
RECURSIVE _initial_index(_, _, _)
_initial_index(options, initial_setting, i) ==
    IF i >= Len(options) THEN 0
    ELSE IF options[i + 1].value = initial_setting THEN i
    ELSE _initial_index(options, initial_setting, i + 1)

_inflate_node(title, cfg) ==
    LET d == NodeDef(title)
    IN  CASE d.type = "CONTAINER" -> Node("CONTAINER", title, 0)
          [] d.type = "SETTING" ->
                Node("SETTING", title, _initial_index(d.options, get_setting(cfg, d.key), 0))
          [] d.type = "TESTS" -> Node("TESTS", title, 0)

\* the index stops at either end instead of wrapping around
_step_index_stops_at_ends(index, n, buttons) ==
    LET a == IF buttons.minus
             THEN (IF index - 1 < 0 THEN 0 ELSE index - 1)
             ELSE index
    IN  IF buttons.plus
        THEN (IF a + 1 >= n THEN n - 1 ELSE a + 1)
        ELSE a

\* the two index steps every node shares: minus, then plus, each wrapping
_step_index(index, n, buttons) ==
    LET a == IF buttons.minus
             THEN (IF index - 1 < 0 THEN n - 1 ELSE index - 1)
             ELSE index
    IN  IF buttons.plus
        THEN (IF a + 1 >= n THEN 0 ELSE a + 1)
        ELSE a

\* what a node's handle_buttons gives back: the node as it leaves it, the
\* _ReturnType, the extra value, and the configuration
NodeResult(node, rtype, extra, cfg, err) ==
    [node |-> node, rtype |-> rtype, extra |-> extra, config |-> cfg, error |-> err]

\* select always opens the first child
_ContainerNode_handle_buttons_opens_first(node, buttons, cfg) ==
    LET children == NodeDef(node.title).children
    IN  IF buttons.back THEN NodeResult(node, "POP_STACK", None, cfg, "none")
        ELSE IF buttons.select
        THEN NodeResult(node, "PUSH_MENU", _inflate_node(children[1], cfg), cfg, "none")
        ELSE NodeResult([node EXCEPT !.current_index =
                                _step_index(node.current_index, Len(children), buttons)],
                        "STAY_HERE", None, cfg, "none")

_ContainerNode_handle_buttons(node, buttons, cfg) ==
    LET children == NodeDef(node.title).children
    IN  IF buttons.back THEN NodeResult(node, "POP_STACK", None, cfg, "none")
        ELSE IF buttons.select
        THEN NodeResult(node, "PUSH_MENU",
                        _inflate_node(children[node.current_index + 1], cfg), cfg, "none")
        ELSE NodeResult([node EXCEPT !.current_index =
                                _step_index(node.current_index, Len(children), buttons)],
                        "STAY_HERE", None, cfg, "none")

\* a plausible slip: the window includes its end
_is_displaying_saved_inclusive(node, t) == t <= node.save_time_millis + _SAVE_DISPLAY_MILLIS

\* _SettingNode._is_displaying_saved, with the clock at t
_is_displaying_saved(node, t) == t < node.save_time_millis + _SAVE_DISPLAY_MILLIS

\* a plausible slip: select saves the first option, not the highlighted one
_SettingNode_handle_buttons_saves_first(node, buttons, cfg, t) ==
    LET d == NodeDef(node.title)
    IN  IF _is_displaying_saved(node, t)
        THEN NodeResult(node, "STAY_HERE", None, cfg, "none")
        ELSE IF buttons.back THEN NodeResult(node, "POP_STACK", None, cfg, "none")
        ELSE IF buttons.select
        THEN LET s == set_setting(cfg, d.key, d.options[1].value)
             IN  IF s.error # "none"
                 THEN NodeResult(node, "STAY_HERE", None, cfg, s.error)
                 ELSE NodeResult([node EXCEPT !.save_time_millis = t],
                                 "STAY_HERE", None, s.config, "none")
        ELSE NodeResult([node EXCEPT !.current_index =
                                _step_index(node.current_index, Len(d.options), buttons)],
                        "STAY_HERE", None, cfg, "none")

\* _SettingNode.handle_buttons, with the clock at t
_SettingNode_handle_buttons(node, buttons, cfg, t) ==
    LET d == NodeDef(node.title)
    IN  IF _is_displaying_saved(node, t)
        THEN NodeResult(node, "STAY_HERE", None, cfg, "none")
        ELSE IF buttons.back THEN NodeResult(node, "POP_STACK", None, cfg, "none")
        ELSE IF buttons.select
        THEN LET s == set_setting(cfg, d.key, d.options[node.current_index + 1].value)
             IN  IF s.error # "none"
                 THEN NodeResult(node, "STAY_HERE", None, cfg, s.error)
                 ELSE NodeResult([node EXCEPT !.save_time_millis = t],
                                 "STAY_HERE", None, s.config, "none")
        ELSE NodeResult([node EXCEPT !.current_index =
                                _step_index(node.current_index, Len(d.options), buttons)],
                        "STAY_HERE", None, cfg, "none")

_TestNode_handle_buttons(node, buttons, cfg) ==
    LET tests == NodeDef(node.title).tests
    IN  IF buttons.back THEN NodeResult(node, "POP_STACK", None, cfg, "none")
        ELSE IF buttons.select
        THEN NodeResult(node, "GO_TO_VIEW", tests[node.current_index + 1].type, cfg, "none")
        ELSE NodeResult([node EXCEPT !.current_index =
                                _step_index(node.current_index, Len(tests), buttons)],
                        "STAY_HERE", None, cfg, "none")

\* a plausible slip: the top level does not leave on back
_TopLevel_handle_buttons_stays_on_back(node, buttons, cfg) ==
    IF buttons.select
    THEN NodeResult(node, "PUSH_MENU", _inflate_node("Main Menu", cfg), cfg, "none")
    ELSE NodeResult(node, "STAY_HERE", None, cfg, "none")

_TopLevel_handle_buttons(node, buttons, cfg) ==
    IF buttons.select
    THEN NodeResult(node, "PUSH_MENU", _inflate_node("Main Menu", cfg), cfg, "none")
    ELSE IF buttons.back THEN NodeResult(node, "POP_STACK", None, cfg, "none")
    ELSE NodeResult(node, "STAY_HERE", None, cfg, "none")

Node_handle_buttons(node, buttons, cfg, t) ==
    CASE node.type = "TOPLEVEL" -> _TopLevel_handle_buttons(node, buttons, cfg)
      [] node.type = "CONTAINER" -> _ContainerNode_handle_buttons(node, buttons, cfg)
      [] node.type = "SETTING" -> _SettingNode_handle_buttons(node, buttons, cfg, t)
      [] node.type = "TESTS" -> _TestNode_handle_buttons(node, buttons, cfg)

\* get_current_display of the node on top of the stack
Node_get_current_display(node, t) ==
    CASE node.type = "TOPLEVEL" -> <<" dbpibus v0.7.0 ", "   Press Menu   ">>
      [] node.type = "CONTAINER" ->
            <<node.title, NodeDef(node.title).children[node.current_index + 1]>>
      [] node.type = "SETTING" ->
            IF _is_displaying_saved(node, t)
            THEN <<node.title, "     Saved!     ">>
            ELSE <<node.title, NodeDef(node.title).options[node.current_index + 1].title>>
      [] node.type = "TESTS" ->
            <<node.title, NodeDef(node.title).tests[node.current_index + 1].title>>

\* ServiceMenuView.__init__ (priority 0).  As in NormalView, _previous_buttons
\* is not assigned.
ServiceMenuView ==
    [View("ServiceMenuView", "ServiceMenuView", 0, <<>>, <<_TopLevel>>) EXCEPT !.prev = Unset]

\* ServiceMenuView._get_test_view: the shift tests call make_view_for_shift
\* with a third argument the function does not take (TypeError); the event
\* tests build their view with priority -1
_get_test_view(test_view) ==
    CASE test_view \in {"SHIFT_DAWN_ANIM", "SHIFT_ALPHA_ANIM", "SHIFT_NIGHT_ANIM",
                        "SHIFT_ZETA_ANIM", "SHIFT_OMEGA_ANIM"} ->
            [view |-> None, error |-> "TypeError"]
      [] test_view = "EVENT_POINT_ANIM" ->
            [view |-> make_view_for_event("POINT", -1), error |-> "none"]
      [] test_view = "EVENT_SPLAT_ANIM" ->
            [view |-> make_view_for_event("SPLAT", -1), error |-> "none"]
      [] test_view = "EVENT_STOP_ANIM" ->
            [view |-> make_view_for_event("STOP", -1), error |-> "none"]
      [] test_view = "EVENT_CRASH_ANIM" ->
            [view |-> make_view_for_event("CRASH", -1), error |-> "none"]

(***************************************************************************)
(* handle_buttons and next_frame of every view class.                      *)
(* handle_buttons gives: the view as it leaves it, what it returns         *)
(* ("None", "False", "True", or "view" with the view in ret_view), the     *)
(* configuration, and the exception it raised, if any.                     *)
(***************************************************************************)
HB(view, ret, ret_view, cfg, err) ==
    [view |-> view, ret |-> ret, ret_view |-> ret_view, config |-> cfg, error |-> err]

\* Python's truth value of what handle_buttons returned: a view object is true
Truthy(ret) == ret = "True" \/ ret = "view"

\* normal_view.py: NormalView.handle_buttons
NormalView_handle_buttons(self, buttons, cfg) ==
    LET to_return ==
            IF self.prev # None
            THEN (IF buttons.back /\ ~self.prev.back THEN ServiceCreditView
                  ELSE IF buttons.select /\ ~self.prev.select THEN ServiceMenuView
                  ELSE None)
            ELSE None
    IN  HB([self EXCEPT !.prev = buttons],
           IF to_return = None THEN "None" ELSE "view", to_return, cfg, "none")

\* a plausible slip: the view clears its deque but does not eat the button
SimpleAnimationView_handle_buttons_passes_press(self, buttons, cfg) ==
    IF buttons.select /\ (self.prev = None \/ ~self.prev.select)
    THEN IF self.anim_is_none
         THEN HB(self, "None", None, cfg, "AttributeError")
         ELSE HB([self EXCEPT !.anim_deque = <<>>, !.prev = buttons],
                 "False", None, cfg, "none")
    ELSE HB([self EXCEPT !.prev = buttons], "True", None, cfg, "none")

\* simple_animation_view.py: SimpleAnimationView.handle_buttons
SimpleAnimationView_handle_buttons(self, buttons, cfg) ==
    IF buttons.select /\ (self.prev = None \/ ~self.prev.select)
    THEN IF self.anim_is_none
         THEN HB(self, "None", None, cfg, "AttributeError")
         ELSE HB([self EXCEPT !.anim_deque = <<>>, !.prev = buttons],
                 "True", None, cfg, "none")
    ELSE HB([self EXCEPT !.prev = buttons], "True", None, cfg, "none")

\* service_credit_view.py: ServiceCreditView.handle_buttons
ServiceCreditView_handle_buttons(self, buttons, cfg, t) ==
    IF buttons.back /\ (self.prev = None \/ ~self.prev.back)
    THEN LET p == _prepare_animation(_generate_animation, t)
         IN  HB([self EXCEPT !.anim_is_none = FALSE, !.anim_deque = p.deque],
                "True", None, cfg, p.error)
    ELSE IF buttons.select /\ (self.prev = None \/ ~self.prev.select)
    THEN IF self.anim_is_none
         THEN HB(self, "None", None, cfg, "AttributeError")
         ELSE HB([self EXCEPT !.anim_deque = <<>>], "True", None, cfg, "none")
    ELSE HB(self, "False", None, cfg, "none")

\* a plausible slip: the top level stays on the stack when only it remains
_menu_apply_keeps_top_level(self, buttons, r) ==
    LET stack == [self.menu_stack EXCEPT ![Len(self.menu_stack)] = r.node]
    IN  CASE r.error # "none" -> HB(self, "None", None, r.config, r.error)
          [] r.error = "none" /\ r.rtype = "POP_STACK" ->
                LET popped == SubSeq(stack, 1, Len(stack) - 1)
                    left == popped
                IN  HB([self EXCEPT !.menu_stack = left, !.prev = buttons],
                       "True", None, r.config, "none")
          [] r.error = "none" /\ r.rtype = "PUSH_MENU" ->
                HB([self EXCEPT !.menu_stack = Append(stack, r.extra), !.prev = buttons],
                   "True", None, r.config, "none")
          [] r.error = "none" /\ r.rtype = "GO_TO_VIEW" ->
                LET tv == _get_test_view(r.extra)
                IN  IF tv.error # "none"
                    THEN HB([self EXCEPT !.menu_stack = stack, !.prev = buttons],
                            "None", None, r.config, tv.error)
                    ELSE HB([self EXCEPT !.menu_stack = stack, !.prev = buttons],
                            "view", tv.view, r.config, "none")
          [] r.error = "none" /\ r.rtype = "STAY_HERE" ->
                HB([self EXCEPT !.menu_stack = stack, !.prev = buttons],
                   "True", None, r.config, "none")

\* the menu empties its stack when it hands over to a test view
_menu_apply_leaves_for_test(self, buttons, r) ==
    LET stack == [self.menu_stack EXCEPT ![Len(self.menu_stack)] = r.node]
    IN  CASE r.error # "none" -> HB(self, "None", None, r.config, r.error)
          [] r.error = "none" /\ r.rtype = "POP_STACK" ->
                LET popped == SubSeq(stack, 1, Len(stack) - 1)
                    left == IF Len(popped) = 1 THEN <<>> ELSE popped
                IN  HB([self EXCEPT !.menu_stack = left, !.prev = buttons],
                       "True", None, r.config, "none")
          [] r.error = "none" /\ r.rtype = "PUSH_MENU" ->
                HB([self EXCEPT !.menu_stack = Append(stack, r.extra), !.prev = buttons],
                   "True", None, r.config, "none")
          [] r.error = "none" /\ r.rtype = "GO_TO_VIEW" ->
                LET tv == _get_test_view(r.extra)
                IN  IF tv.error # "none"
                    THEN HB([self EXCEPT !.menu_stack = stack, !.prev = buttons],
                            "None", None, r.config, tv.error)
                    ELSE HB([self EXCEPT !.menu_stack = <<>>, !.prev = buttons],
                            "view", tv.view, r.config, "none")
          [] r.error = "none" /\ r.rtype = "STAY_HERE" ->
                HB([self EXCEPT !.menu_stack = stack, !.prev = buttons],
                   "True", None, r.config, "none")

\* the match statement of ServiceMenuView.handle_buttons
_menu_apply(self, buttons, r) ==
    LET stack == [self.menu_stack EXCEPT ![Len(self.menu_stack)] = r.node]
    IN  CASE r.error # "none" -> HB(self, "None", None, r.config, r.error)
          [] r.error = "none" /\ r.rtype = "POP_STACK" ->
                LET popped == SubSeq(stack, 1, Len(stack) - 1)
                    left == IF Len(popped) = 1 THEN <<>> ELSE popped
                IN  HB([self EXCEPT !.menu_stack = left, !.prev = buttons],
                       "True", None, r.config, "none")
          [] r.error = "none" /\ r.rtype = "PUSH_MENU" ->
                HB([self EXCEPT !.menu_stack = Append(stack, r.extra), !.prev = buttons],
                   "True", None, r.config, "none")
          [] r.error = "none" /\ r.rtype = "GO_TO_VIEW" ->
                LET tv == _get_test_view(r.extra)
                IN  IF tv.error # "none"
                    THEN HB([self EXCEPT !.menu_stack = stack, !.prev = buttons],
                            "None", None, r.config, tv.error)
                    ELSE HB([self EXCEPT !.menu_stack = stack, !.prev = buttons],
                            "view", tv.view, r.config, "none")
          [] r.error = "none" /\ r.rtype = "STAY_HERE" ->
                HB([self EXCEPT !.menu_stack = stack, !.prev = buttons],
                   "True", None, r.config, "none")

\* service_menu_view.py: ServiceMenuView.handle_buttons
ServiceMenuView_handle_buttons(self, buttons, cfg, t) ==
    IF Len(self.menu_stack) = 0
    THEN HB(self, "True", None, cfg, "none")
    ELSE IF self.prev # None /\ self.prev # buttons
    THEN _menu_apply(self, buttons,
                     Node_handle_buttons(self.menu_stack[Len(self.menu_stack)],
                                         buttons, cfg, t))
    ELSE HB([self EXCEPT !.prev = buttons], "True", None, cfg, "none")

\* What the first read of a view's _previous_buttons gives when no __init__
\* assigned it.  With BaseView.__init__ as base_view.py has it the read raises
\* AttributeError; the tests "is not None" (normal_view.py) and "is None"
\* (service_menu_view.py), and SimpleAnimationView.__init__, expect None.
\* Both outcomes are kept; a build gives the same one at every read.
UnsetReads == {"AttributeError", "None"}

\* whether handle_buttons of the view reads a _previous_buttons never assigned
reads_unset(self) ==
    /\ self.prev = Unset
    /\ (self.kind = "NormalView"
        \/ (self.kind = "ServiceMenuView" /\ Len(self.menu_stack) # 0))

\* views[0].handle_buttons(latest_stats, buttons), by the class of views[0]
handle_buttons(self, buttons, cfg, t, unset_read) ==
    LET me == IF self.prev = Unset THEN [self EXCEPT !.prev = None] ELSE self
    IN  IF reads_unset(self) /\ unset_read = "AttributeError"
        THEN HB(self, "None", None, cfg, "AttributeError")
        ELSE CASE self.kind = "NormalView" -> NormalView_handle_buttons(me, buttons, cfg)
               [] self.kind = "SimpleAnimationView" ->
                     SimpleAnimationView_handle_buttons(me, buttons, cfg)
               [] self.kind = "ServiceCreditView" ->
                     ServiceCreditView_handle_buttons(me, buttons, cfg, t)
               [] self.kind = "ServiceMenuView" ->
                     ServiceMenuView_handle_buttons(me, buttons, cfg, t)

\* next_frame gives: the view as it leaves it, whether it is complete, the
\* lines it displays (None for nothing), and the exception it raised
NF(view, complete, shown, err) ==
    [view |-> view, complete |-> complete, shown |-> shown, error |-> err]

\* a plausible slip: the idle view reports itself complete
NormalView_next_frame_completes(self) ==
    NF(self, TRUE, <<"(stat page)", "(donation total)">>, "none")

\* NormalView.next_frame with a VstData: one page line and the donation line
NormalView_next_frame(self) ==
    NF(self, FALSE, <<"(stat page)", "(donation total)">>, "none")

\* a plausible slip: an empty deque is prepared again
Animation_next_frame_prepares_when_empty(self, anim_list, t) ==
    LET p == IF self.anim_is_none \/ self.anim_deque = <<>>
             THEN _prepare_animation(anim_list, t)
             ELSE [deque |-> self.anim_deque, error |-> "none"]
    IN  IF p.error # "none"
        THEN NF(self, FALSE, None, p.error)
        ELSE LET r == _do_animation_frame(p.deque, t)
             IN  NF([self EXCEPT !.anim_is_none = FALSE, !.anim_deque = r.deque],
                    r.finished, r.shown, "none")

\* a plausible slip: the schedule is anchored one short tick before the call,
\* when the view was pushed
Animation_next_frame_anchors_at_push(self, anim_list, t) ==
    LET p == IF self.anim_is_none
             THEN _prepare_animation(anim_list, t - 500)
             ELSE [deque |-> self.anim_deque, error |-> "none"]
    IN  IF p.error # "none"
        THEN NF(self, FALSE, None, p.error)
        ELSE LET r == _do_animation_frame(p.deque, t)
             IN  NF([self EXCEPT !.anim_is_none = FALSE, !.anim_deque = r.deque],
                    r.finished, r.shown, "none")

\* SimpleAnimationView.next_frame and ServiceCreditView.next_frame: prepare
\* the deque on the first call, then run one animation frame
Animation_next_frame(self, anim_list, t) ==
    LET p == IF self.anim_is_none
             THEN _prepare_animation(anim_list, t)
             ELSE [deque |-> self.anim_deque, error |-> "none"]
    IN  IF p.error # "none"
        THEN NF(self, FALSE, None, p.error)
        ELSE LET r == _do_animation_frame(p.deque, t)
             IN  NF([self EXCEPT !.anim_is_none = FALSE, !.anim_deque = r.deque],
                    r.finished, r.shown, "none")

\* ServiceMenuView.next_frame
ServiceMenuView_next_frame(self, t) ==
    IF Len(self.menu_stack) = 0
    THEN NF(self, TRUE, None, "none")
    ELSE NF(self, FALSE,
            Node_get_current_display(self.menu_stack[Len(self.menu_stack)], t), "none")

\* views[0].next_frame(latest_stats), by the class of views[0]
next_frame(self, t) ==
    CASE self.kind = "NormalView" -> NormalView_next_frame(self)
      [] self.kind = "SimpleAnimationView" ->
            Animation_next_frame(self, self.anim_sequence, t)
      [] self.kind = "ServiceCreditView" ->
            Animation_next_frame(self, _generate_animation, t)
      [] self.kind = "ServiceMenuView" -> ServiceMenuView_next_frame(self, t)

(***************************************************************************)
(* vst_data.py: a snapshot, by the fields the main loop and the event      *)
(* detector read.  is_omega_shift is "True", "False" or "None".            *)
(***************************************************************************)
VstData(is_live, is_omega_shift, points, splats, stops, crashes) ==
    [is_live |-> is_live, is_omega_shift |-> is_omega_shift, points |-> points,
     splats |-> splats, stops |-> stops, crashes |-> crashes]

Counters == 0..MaxCount

(***************************************************************************)
(* dbpibus.py: the main loop                                               *)
(***************************************************************************)
\* a plausible slip: a changed setting is acted on only when it is the
\* current-shift one
lcd_setting_color_current_shift_only(color, current_lcd_setting, last_known, stats, hr) ==
    IF current_lcd_setting # last_known
    THEN IF current_lcd_setting = "CurrentShift"
         THEN IF stats # None /\ stats.is_omega_shift = "True"
              THEN SCREEN_COLORS("OMEGA_SHIFT")
              ELSE SCREEN_COLORS(get_current_shift(hr))
         ELSE color
    ELSE color

\* lines 122-131: the colour when the LCD colour setting changed
lcd_setting_color(color, current_lcd_setting, last_known, stats, hr) ==
    IF current_lcd_setting # last_known
    THEN IF current_lcd_setting = "CurrentShift"
         THEN IF stats # None /\ stats.is_omega_shift = "True"
              THEN SCREEN_COLORS("OMEGA_SHIFT")
              ELSE SCREEN_COLORS(get_current_shift(hr))
         ELSE SCREEN_COLORS(config_shift_to_data_shift(current_lcd_setting))
    ELSE color

\* a plausible slip: the Omega flag is not looked at
resolve_now_shift_clock_only(stats, hr) == get_current_shift(hr)

\* lines 139-145: now_shift is set to None and then compared with Omega
resolve_now_shift(stats, hr) ==
    LET now_shift == "None"
    IN  IF stats # None
           /\ (stats.is_omega_shift = "True"
               \/ (stats.is_omega_shift = "None" /\ now_shift = "OMEGA_SHIFT"))
        THEN "OMEGA_SHIFT"
        ELSE get_current_shift(hr)

\* a plausible slip: the test for leaving Omega is dropped
shift_view_wanted_no_omega_test(shift_anim_setting, stats, shift) ==
    shift_anim_setting = "Always"
    \/ (shift_anim_setting = "OnlyInSeason" /\ stats # None /\ stats.is_live)

\* lines 159-163: whether a shift change shows its transition view
shift_view_wanted(shift_anim_setting, stats, shift) ==
    (shift_anim_setting = "Always"
     \/ (shift_anim_setting = "OnlyInSeason" /\ stats # None /\ stats.is_live))
    /\ shift # "OMEGA_SHIFT"

\* the push order of the next view to enter the heap
RECURSIVE MaxSeq(_)
MaxSeq(heap) ==
    IF heap = <<>> THEN 0
    ELSE LET m == MaxSeq(Tail(heap))
         IN  IF Head(heap).seq > m THEN Head(heap).seq ELSE m

\* heapq.heappush(views, view), the view stamped with its push order
push_view(heap, view) == heappush(heap, [view EXCEPT !.seq = MaxSeq(heap) + 1])

\* line 197 calls heapq.push, which the module heapq does not have
heapq_push(heap, view) == [heap |-> heap, error |-> "AttributeError"]

\* push orders renumbered 1..n, their order kept
Renumber(heap) ==
    [i \in 1..Len(heap) |->
        [heap[i] EXCEPT !.seq = Cardinality({j \in 1..Len(heap) : heap[j].seq <= heap[i].seq})]]

\* What a tick did, for the properties below:
\*   old_shift   current_shift when the tick began
\*   pushed      the views pushed, in order, each with the step that pushed it
\*   top_kind    the class of views[0] when handle_buttons was called
\*   hb_ret      what handle_buttons returned; hb_view the class of a returned view
\*   events      the classes and priorities make_views_for_events returned
\*   nf_kind, nf_priority   the view whose next_frame was called
\*   nf_prios    the priorities queued at that moment
\*   nf_older    how many queued views of that priority were pushed before it
\*   popped      whether the tick popped that view
\*   seed_len    the length of the queue at line 168, -1 when the tick had no snapshot
\*   hb_len      the length of the queue when views[0] was read at line 175
\*   prev_popped whether the iteration before this one popped a view
\*   buttons, prev_buttons   the buttons of this iteration and previous_buttons
\*               when it began
\*   menu_pre, menu_post     _menu_stack of views[0] before and after its
\*               handle_buttons, <<>> for a view without one
\*   cfg_pre     the configuration when the iteration began
\*   read_unset  whether handle_buttons read an attribute no __init__ assigned
Pushed(why, view) == [why |-> why, kind |-> view.kind, priority |-> view.priority]

NoTick ==
    [old_shift |-> "None", pushed |-> <<>>, top_kind |-> "none", hb_ret |-> "none", hb_view |-> "none",
     events |-> <<>>, nf_kind |-> "none", nf_priority |-> 0, nf_prios |-> {},
     nf_older |-> 0, popped |-> FALSE, seed_len |-> 0 - 1, hb_len |-> 0 - 1,
     prev_popped |-> FALSE, buttons |-> None, prev_buttons |-> None,
     menu_pre |-> <<>>, menu_post |-> <<>>, cfg_pre |-> None, read_unset |-> FALSE]

\* lines 167-207: the part of the loop body that runs with a snapshot.
\* lines 199-207: next_frame of views[0], here nf, then the pop and the stash
ServeTop(m, stats, current_lcd_setting, nf) ==
    LET v3 == m.views
        v4 == [v3 EXCEPT ![1] = nf.view]
        served == [m.last EXCEPT
                    !.nf_kind = v3[1].kind,
                    !.nf_priority = v3[1].priority,
                    !.nf_prios = {v3[i].priority : i \in 1..Len(v3)},
                    !.nf_older = Cardinality({i \in 1..Len(v3) :
                                    v3[i].priority = v3[1].priority /\ v3[i].seq < v3[1].seq}),
                    !.popped = nf.complete]
    IN  IF nf.error # "none"
        THEN [m EXCEPT !.error = nf.error]
        ELSE [m EXCEPT !.views = IF nf.complete THEN heappop(v4) ELSE v4,
                       !.lcd_message = IF nf.shown = None THEN m.lcd_message ELSE nf.shown,
                       !.previous_stats = stats,
                       !.last_known_lcd_setting = current_lcd_setting,
                       !.last = served]

\* lines 175-197: what the loop does with the value hb of views[0].handle_buttons
\* on the queue v0, and with the game's events; latest_stats.is_live (line 192)
\* of None raises AttributeError
ButtonPolicy(m, stats, buttons, current_lcd_setting, t, v0, hb) ==
    LET v1 == [v0 EXCEPT ![1] = hb.view]
        edge_back == buttons.back
                     /\ (m.previous_buttons = None \/ ~m.previous_buttons.back)
        edge_select == buttons.select
                       /\ (m.previous_buttons = None \/ ~m.previous_buttons.select)
        policy == IF Truthy(hb.ret) THEN <<>>
                  ELSE IF edge_back THEN <<ServiceCreditView>>
                  ELSE IF edge_select THEN <<ServiceMenuView>>
                  ELSE <<>>
        v2 == IF policy = <<>> THEN v1 ELSE push_view(v1, policy[1])
        event_views == IF stats # None /\ stats.is_live
                          /\ get_setting(hb.config, "ShowEventAnim") = "Always"
                       THEN make_views_for_events(m.previous_stats, stats)
                       ELSE <<>>
        ev == IF Len(event_views) > 0
              THEN heapq_push(v2, event_views[1])
              ELSE [heap |-> v2, error |-> "none"]
        seen == [m.last EXCEPT
                    !.pushed = m.last.pushed
                               \o (IF policy = <<>> THEN <<>>
                                   ELSE <<Pushed("policy", policy[1])>>),
                    !.hb_ret = hb.ret,
                    !.menu_post = hb.view.menu_stack,
                    !.hb_view = IF hb.ret = "view" THEN hb.ret_view.kind ELSE "none",
                    !.events = [i \in 1..Len(event_views) |-> event_views[i].priority]]
        m1 == [m EXCEPT !.views = ev.heap, !.config = hb.config,
                        !.previous_buttons = buttons, !.last = seen]
    IN  IF hb.error # "none"
        THEN [m EXCEPT !.views = v0, !.error = hb.error]
        ELSE IF stats = None
        THEN [m1 EXCEPT !.error = "AttributeError"]
        ELSE IF ev.error # "none"
        THEN [m1 EXCEPT !.error = ev.error]
        ELSE IF Len(ev.heap) = 0
        THEN [m1 EXCEPT !.error = "IndexError"]
        ELSE ServeTop(m1, stats, current_lcd_setting, next_frame(ev.heap[1], t))

\* the queue is never seeded
seed_idle_never(heap) == heap

\* lines 168-171: the idle view is put in an empty queue
seed_idle(heap) == IF Len(heap) = 0 THEN push_view(heap, NormalView) ELSE heap

\* lines 167-175: the queue is seeded, then views[0] gets the buttons; views[0]
\* of an empty list raises IndexError
RunViews(m, stats, buttons, current_lcd_setting, t, unset_read) ==
    LET v0 == seed_idle(m.views)
        seeded == IF Len(v0) > Len(m.views) THEN <<Pushed("idle", NormalView)>> ELSE <<>>
        m0 == [m EXCEPT !.last = [m.last EXCEPT !.pushed = m.last.pushed \o seeded,
                                                !.seed_len = Len(m.views),
                                                !.hb_len = Len(v0),
                                                !.menu_pre = IF Len(v0) = 0 THEN <<>>
                                                             ELSE v0[1].menu_stack,
                                                !.read_unset = Len(v0) > 0
                                                               /\ reads_unset(v0[1])]]
    IN  IF Len(v0) = 0
        THEN [m0 EXCEPT !.views = v0, !.error = "IndexError"]
        ELSE ButtonPolicy([m0 EXCEPT !.last = [m0.last EXCEPT !.top_kind = v0[1].kind]],
                          stats, buttons, current_lcd_setting, t, v0,
                          handle_buttons(v0[1], buttons, m.config, t, unset_read))

\* the queue with the order of arrival counted from 1 again
Renumbered(m) == [m EXCEPT !.views = Renumber(m.views)]

\* lines 116-207: one iteration of the loop, from the variables in m
\* every tick is taken to have a snapshot
has_stats_always(stats) == TRUE

\* line 167: latest_stats is not None
has_stats(stats) == stats # None

LoopBody(m, stats, buttons, hr, t, unset_read) ==
    LET current_lcd_setting == get_setting(m.config, "LcdColor")
        color1 == lcd_setting_color(m.lcd_color, current_lcd_setting,
                                    m.last_known_lcd_setting, stats, hr)
        now_shift == resolve_now_shift(stats, hr)
        changed == now_shift # m.current_shift
        color2 == IF changed /\ current_lcd_setting = "CurrentShift"
                  THEN SCREEN_COLORS(now_shift) ELSE color1
        wanted == changed
                  /\ shift_view_wanted(get_setting(m.config, "ShowShiftAnim"),
                                       stats, m.current_shift)
        tv == make_view_for_shift(now_shift)
        m1 == [m EXCEPT
                 !.lcd_color = color2,
                 !.views = IF wanted THEN push_view(m.views, tv) ELSE m.views,
                 !.current_shift = now_shift,
                 !.last = [NoTick EXCEPT
                             !.old_shift = m.current_shift,
                             !.prev_popped = m.last.popped,
                             !.buttons = buttons,
                             !.prev_buttons = m.previous_buttons,
                             !.cfg_pre = m.config,
                             !.pushed = IF wanted THEN <<Pushed("shift", tv)>> ELSE <<>>]]
    IN  Renumbered(IF has_stats(stats)
                   THEN RunViews(m1, stats, buttons, current_lcd_setting, t, unset_read)
                   ELSE m1)

(***************************************************************************)
(* The clock: every stored timestamp as seen gap ms later.                 *)
(***************************************************************************)
AgedTime(time, gap) ==
    IF time - gap < 0 - _SAVE_DISPLAY_MILLIS THEN 0 - _SAVE_DISPLAY_MILLIS ELSE time - gap

\* _do_animation_frame only asks whether a frame's time is before the clock
AgedFrameTime(time, gap) == IF time - gap < 0 - 1 THEN 0 - 1 ELSE time - gap

AgedView(view, gap) ==
    [view EXCEPT
        !.anim_deque = [i \in 1..Len(view.anim_deque) |->
                           [view.anim_deque[i] EXCEPT !.time = AgedFrameTime(@, gap)]],
        !.menu_stack = [i \in 1..Len(view.menu_stack) |->
                           [view.menu_stack[i] EXCEPT
                               !.save_time_millis = AgedTime(@, gap)]]]

Aged(heap, gap) == [i \in 1..Len(heap) |-> AgedView(heap[i], gap)]

(***************************************************************************)
(* The state machine                                                       *)
(***************************************************************************)
NoButtons == ButtonData(FALSE, FALSE, FALSE, FALSE)
BackOnly == ButtonData(TRUE, FALSE, FALSE, FALSE)
SelectOnly == ButtonData(FALSE, FALSE, FALSE, TRUE)

\* config.py, load_config: the settings file may hold any valid value per key
ConfigWith(shift_anim, event_anim, lcd_color_setting) ==
    [_make_default_config EXCEPT !["ShowShiftAnim"] = shift_anim,
                                 !["ShowEventAnim"] = event_anim,
                                 !["LcdColor"] = lcd_color_setting]

\* dbpibus.py, lines 86-114: the state when the loop is entered
LoopInit(configs) ==
    /\ hour = 5
    /\ latest_stats = None
    /\ views = <<>>
    /\ current_shift = get_current_shift(hour)
    /\ previous_buttons = None
    /\ previous_stats = None
    /\ last_known_lcd_setting = "None"
    /\ lcd_color = SCREEN_COLORS(current_shift)
    /\ lcd_message = <<"Your driver is: ", "     JOCKO      ">>
    /\ config \in configs
    /\ error = "none"
    /\ last = NoTick

\* make_views_for_events not yet called
NoCall == [called |-> FALSE, views |-> <<>>]

\* What the latest call on the animation view of SpecAnim did:
\*   op            "__init__", "next_frame" or "handle_buttons"
\*   finished      what next_frame returned
\*   shown         the lines it displayed, None for nothing
\*   pre           _anim_deque when it was called
\*   start         the clock when _prepare_animation ran
\*   prepared      whether _prepare_animation has run
\*   was_finished  whether an earlier next_frame returned finished
\*   cancelled     whether handle_buttons has cleared the deque
NoAnimCall ==
    [op |-> "none", finished |-> FALSE, shown |-> None, pre |-> <<>>, start |-> 0,
     prepared |-> FALSE, was_finished |-> FALSE, cancelled |-> FALSE]

\* no animation view is driven on its own
NoAnim == [frames |-> <<>>, view |-> None, now |-> 0, call |-> NoAnimCall]

\* the person at the buttons presses what they like
Free == [mode |-> "free", presses |-> 0]

\* no NormalView is driven on its own
NoIdle == [view |-> None, now |-> 0, total |-> 0, shown |-> None, seen |-> None]

\* fetcher_thread.py, lines 32-35: the thread after start(), nothing fetched yet
Running == [alive |-> TRUE, results |-> None]

\* the loop is between two iterations and has read nothing from the thread;
\* dead_ticks counts the iterations ended since the thread died
NotRead == [read |-> FALSE, latest_stats |-> None, dead_ticks |-> 0]

\* no call on the config store is followed
NoStore == [file |-> None, call |-> "none", raised |-> "none", valid |-> TRUE,
            unchanged |-> TRUE]

\* most critical messages counted
MaxLogged == 2

\* the state, after construction, of what only one specification drives
ThreadInit ==
    /\ fetcher_thread = Running
    /\ loop_read = NotRead
    /\ is_aware_of_dead_fetcher_thread = FALSE
    /\ critical_logged = 0

Elsewhere ==
    /\ idle = NoIdle
    /\ ThreadInit
    /\ store = NoStore

InitWith(configs) ==
    /\ LoopInit(configs)
    /\ unset_attr = "unread"
    /\ user = Free
    /\ Elsewhere
    /\ ev_prev = None
    /\ ev_curr = None
    /\ ev_result = NoCall
    /\ anim = NoAnim

\* fetcher_thread.py: the fetcher publishes a snapshot drawn from inputs
FetchFrom(inputs) ==
    /\ error = "none"
    /\ \E s \in inputs :
          /\ s # latest_stats
          /\ latest_stats' = s
    /\ UNCHANGED <<hour, views, current_shift, previous_buttons, previous_stats,
                   last_known_lcd_setting, lcd_color, lcd_message, config, error, last,
                   unset_attr, user, idle, thread_vars, store, ev_prev, ev_curr, ev_result, anim>>

\* the wall clock reaches the next shift boundary
ClockAdvance ==
    /\ error = "none"
    /\ hour' = (((hour \div 6) + 1) * 6) % 24
    /\ UNCHANGED <<latest_stats, views, current_shift, previous_buttons,
                   previous_stats, last_known_lcd_setting, lcd_color, lcd_message,
                   config, error, last, unset_attr, user, idle, thread_vars, store, ev_prev, ev_curr, ev_result, anim>>

\* the loop forgets that it has noticed
notices_dead_fetcher_unaware(alive, aware) == ~alive

\* dbpibus.py, lines 209-213: the loop has yet to notice that the thread died
notices_dead_fetcher(alive, aware) == ~alive /\ ~aware

\* dbpibus.py, lines 116-215: one iteration of the main loop, gap ms after the
\* one before, with the buttons in one of the given states
LoopIterationOn(stats, gaps, button_inputs, max_views) ==
    /\ error = "none"
    /\ \E gap \in gaps, buttons \in button_inputs,
          unset_read \in (IF unset_attr = "unread" THEN UnsetReads ELSE {unset_attr}) :
          LET t == 0
              m == [views |-> Aged(views, gap), current_shift |-> current_shift,
                    previous_buttons |-> previous_buttons,
                    previous_stats |-> previous_stats,
                    last_known_lcd_setting |-> last_known_lcd_setting,
                    lcd_color |-> lcd_color, lcd_message |-> lcd_message,
                    config |-> config, error |-> error, last |-> last]
          IN  \E r \in {LoopBody(m, stats, buttons, hour, t, unset_read)} :
                 /\ Len(r.views) <= max_views
                 /\ views' = r.views
                 /\ current_shift' = r.current_shift
                 /\ previous_buttons' = r.previous_buttons
                 /\ previous_stats' = r.previous_stats
                 /\ last_known_lcd_setting' = r.last_known_lcd_setting
                 /\ lcd_color' = r.lcd_color
                 /\ lcd_message' = r.lcd_message
                 /\ config' = r.config
                 /\ error' = r.error
                 /\ last' = r.last
                 /\ unset_attr' = IF r.last.read_unset THEN unset_read ELSE unset_attr
                 /\ \E notices \in {/\ r.error = "none"
                                     /\ notices_dead_fetcher(fetcher_thread.alive,
                                            is_aware_of_dead_fetcher_thread)} :
                       /\ is_aware_of_dead_fetcher_thread' =
                              IF notices THEN TRUE ELSE is_aware_of_dead_fetcher_thread
                       /\ critical_logged' =
                              IF notices THEN Min(critical_logged + 1, MaxLogged)
                              ELSE critical_logged
    /\ UNCHANGED <<hour, latest_stats, fetcher_thread, idle, store,
                   ev_prev, ev_curr, ev_result, anim>>

\* dbpibus.py, line 117 and the iteration it opens, as one step
LoopIteration(gaps, button_inputs, max_views) ==
    /\ LoopIterationOn(latest_stats, gaps, button_inputs, max_views)
    /\ UNCHANGED loop_read

\* an iteration during which the person at the buttons follows no protocol
TickWith(gaps, button_inputs, max_views) ==
    /\ LoopIteration(gaps, button_inputs, max_views)
    /\ UNCHANGED user

(***************************************************************************)
(* Spec: the view queue and the buttons.  The run is live, the clock       *)
(* crosses shift boundaries, back and select are pressed and released.     *)
(***************************************************************************)
AlwaysConfig == {ConfigWith("Always", "Always", "CurrentShift")}

LiveStats == {VstData(TRUE, "False", 0, 0, 0, 0)}

Buttons == {NoButtons, BackOnly, SelectOnly}

Init == InitWith(AlwaysConfig)

Fetch == FetchFrom(LiveStats)

Tick == TickWith(TickGaps, Buttons, MaxViews)

Next == Fetch \/ ClockAdvance \/ Tick

Spec == Init /\ [][Next]_vars

(***************************************************************************)
(* SpecQueue: a long queue.  No button is pressed; the clock crosses shift *)
(* boundaries before and after the fetcher's first snapshot.               *)
(***************************************************************************)
Released == {NoButtons}

Releasable == {NoButtons, SelectOnly}

QueueInit == InitWith(AlwaysConfig)

QueueFetch == FetchFrom(LiveStats)

QueueTick == TickWith(TickGaps, Released, QueueMaxViews)

QueueNext == QueueFetch \/ ClockAdvance \/ QueueTick

SpecQueue == QueueInit /\ [][QueueNext]_vars

(***************************************************************************)
(* SpecShift: the shift and the game's events.  No button is pressed; the  *)
(* fetcher publishes every kind of snapshot under every animation policy.  *)
(***************************************************************************)
ShiftConfigs ==
    {ConfigWith("Always", "Always", "CurrentShift"),
     ConfigWith("OnlyInSeason", "Never", "OmegaShift"),
     ConfigWith("Never", "Always", "CurrentShift")}

ShiftStats ==
    {VstData(FALSE, "False", 0, 0, 0, 0), VstData(TRUE, "True", 0, 0, 0, 0),
     VstData(TRUE, "None", 0, 0, 0, 0), VstData(TRUE, "False", 1, 1, 0, 1)}

ShiftInit == InitWith(ShiftConfigs)

ShiftFetch == FetchFrom(ShiftStats)

ShiftTick == TickWith(TickGaps, Released, ShiftMaxViews)

ShiftNext == ShiftFetch \/ ClockAdvance \/ ShiftTick

SpecShift == ShiftInit /\ [][ShiftNext]_vars

(***************************************************************************)
(* SpecEvents: make_views_for_events on every pair of snapshots, absent    *)
(* ones included, with counters up to MaxCount.                            *)
(***************************************************************************)
EventInputs ==
    {None} \cup {VstData(TRUE, "False", p, s, st, c) :
                    p \in Counters, s \in Counters, st \in Counters, c \in Counters}

DefaultConfig == {_make_default_config}

EventsInit ==
    /\ LoopInit(DefaultConfig)
    /\ unset_attr = "unread"
    /\ user = Free
    /\ Elsewhere
    /\ ev_prev \in EventInputs
    /\ ev_curr \in EventInputs
    /\ ev_result = NoCall
    /\ anim = NoAnim

\* event_data.py: events = make_views_for_events(lcd, prev_data, curr_data)
DetectEvents ==
    /\ ~ev_result.called
    /\ ev_result' = [called |-> TRUE, views |-> make_views_for_events(ev_prev, ev_curr)]
    /\ UNCHANGED <<hour, latest_stats, views, current_shift, previous_buttons,
                   previous_stats, last_known_lcd_setting, lcd_color, lcd_message,
                   config, error, last, unset_attr, user, idle, thread_vars, store, ev_prev, ev_curr, anim>>

EventsNext == DetectEvents

SpecEvents == EventsInit /\ [][EventsNext]_vars

(***************************************************************************)
(* SpecAnim: one SimpleAnimationView on its own.  Init draws its frame     *)
(* list, lines that are None included; the view is built, next_frame is    *)
(* called at any pattern of times, select is pressed and released.  Times  *)
(* are absolute here, in units of the shortest frame.                      *)
(***************************************************************************)
FrameDurations == {0, 1, 2}

CallGaps == 0..3

FrameLabels == <<"frame 1", "frame 2", "frame 3", "frame 4", "frame 5", "frame 6">>

\* frame lists of up to MaxFrames frames; line2 of a frame may be None
AnimInputs ==
    UNION {{[i \in 1..n |-> Frame(d[i], FrameLabels[i],
                                   IF i \in nulls THEN NoLine ELSE "line 2")] :
               d \in [1..n -> FrameDurations], nulls \in SUBSET (1..n)} :
           n \in 0..MaxFrames}

AnimStart == {[NoAnim EXCEPT !.frames = f] : f \in AnimInputs}

AnimInit ==
    /\ LoopInit(DefaultConfig)
    /\ unset_attr = "unread"
    /\ user = Free
    /\ Elsewhere
    /\ ev_prev = None
    /\ ev_curr = None
    /\ ev_result = NoCall
    /\ anim \in AnimStart

\* what an earlier call leaves for the record of the next one
Carried(call) ==
    [call EXCEPT !.was_finished = call.was_finished
                                  \/ (call.op = "next_frame" /\ call.finished),
                 !.finished = FALSE, !.shown = None]

\* SimpleAnimationView(lcd, anim_sequence, name, priority)
Construct ==
    /\ error = "none"
    /\ anim.view = None
    /\ anim' = [anim EXCEPT
                  !.view = SimpleAnimationView(anim.frames, "Test Animation", 10),
                  !.call = [NoAnimCall EXCEPT !.op = "__init__"]]
    /\ UNCHANGED <<hour, latest_stats, views, current_shift, previous_buttons,
                   previous_stats, last_known_lcd_setting, lcd_color, lcd_message,
                   config, error, last, unset_attr, user, idle, thread_vars, store, ev_prev, ev_curr, ev_result>>

\* view.next_frame(data), gap after the call before
AnimNextFrame ==
    /\ error = "none"
    /\ anim.view # None
    /\ \E gap \in CallGaps :
          /\ anim.now + gap <= MaxNow
          /\ \E r \in {Animation_next_frame(anim.view, anim.view.anim_sequence,
                                             anim.now + gap)} :
                /\ anim' = [anim EXCEPT
                              !.now = anim.now + gap,
                              !.view = r.view,
                              !.call = [Carried(anim.call) EXCEPT
                                          !.op = "next_frame",
                                          !.finished = r.complete,
                                          !.shown = r.shown,
                                          !.pre = anim.view.anim_deque,
                                          !.start = IF anim.view.anim_is_none
                                                    THEN anim.now + gap ELSE @,
                                          !.prepared = @ \/ r.error = "none"]]
                /\ error' = r.error
    /\ UNCHANGED <<hour, latest_stats, views, current_shift, previous_buttons,
                   previous_stats, last_known_lcd_setting, lcd_color, lcd_message,
                   config, last, unset_attr, user, idle, thread_vars, store, ev_prev, ev_curr, ev_result>>

\* view.handle_buttons(data, buttons) with select pressed or released
AnimButtons ==
    /\ error = "none"
    /\ anim.view # None
    /\ \E buttons \in Releasable :
          \E r \in {SimpleAnimationView_handle_buttons(anim.view, buttons, config)} :
             /\ anim' = [anim EXCEPT
                           !.view = r.view,
                           !.call = [Carried(anim.call) EXCEPT
                                       !.op = "handle_buttons",
                                       !.pre = anim.view.anim_deque,
                                       !.cancelled =
                                            @ \/ (/\ r.error = "none"
                                                  /\ buttons.select
                                                  /\ (anim.view.prev = None
                                                      \/ ~anim.view.prev.select))]]
             /\ error' = r.error
    /\ UNCHANGED <<hour, latest_stats, views, current_shift, previous_buttons,
                   previous_stats, last_known_lcd_setting, lcd_color, lcd_message,
                   config, last, unset_attr, user, idle, thread_vars, store, ev_prev, ev_curr, ev_result>>

AnimNext == Construct \/ AnimNextFrame \/ AnimButtons

SpecAnim == AnimInit /\ [][AnimNext]_vars

(***************************************************************************)
(* SpecMenu: the service menu in the main loop.  The run is live, the four *)
(* buttons are pressed, held and released, alone and two at a time.        *)
(***************************************************************************)
\* most views in the queue at once in SpecMenu
MenuMaxViews == 3

\* time between two ticks: a lag of which two make _SAVE_DISPLAY_MILLIS
MenuGaps == {500}

MinusOnly == ButtonData(FALSE, TRUE, FALSE, FALSE)
PlusOnly == ButtonData(FALSE, FALSE, TRUE, FALSE)
SelectPlus == ButtonData(FALSE, FALSE, TRUE, TRUE)

MenuButtons == {NoButtons, BackOnly, SelectOnly, MinusOnly, PlusOnly, SelectPlus}

MenuInit == InitWith(DefaultConfig)

MenuFetch == FetchFrom(LiveStats)

MenuTick == TickWith(MenuGaps, MenuButtons, MenuMaxViews)

MenuNext == MenuFetch \/ MenuTick

SpecMenu == MenuInit /\ [][MenuNext]_vars

(***************************************************************************)
(* SpecBack: leaving the menu.  The person at the buttons first presses    *)
(* what they like, then, with the menu open, only presses and releases     *)
(* back, one tick each.  The main loop never stops iterating (while True,  *)
(* line 116), so each of these ticks comes.                                *)
(***************************************************************************)
\* presses of back counted up to this many
MaxPresses == 6

BackFreeButtons == {NoButtons, BackOnly, SelectOnly, PlusOnly}

BackPressed == {BackOnly}

\* the service menu is views[0]
MenuOnTop == views # <<>> /\ views[1].kind = "ServiceMenuView"

BackInit == InitWith(DefaultConfig)

BackFetch == FetchFrom(LiveStats)

FreeTick ==
    /\ user.mode = "free"
    /\ TickWith(MenuGaps, BackFreeButtons, MenuMaxViews)

\* from here on only back is pressed and released
StartBacking ==
    /\ user.mode = "free"
    /\ error = "none"
    /\ MenuOnTop
    /\ user' = [mode |-> "press", presses |-> 0]
    /\ UNCHANGED <<hour, latest_stats, views, current_shift, previous_buttons,
                   previous_stats, last_known_lcd_setting, lcd_color, lcd_message,
                   config, error, last, unset_attr, idle, thread_vars, store, ev_prev, ev_curr, ev_result, anim>>

\* the person presses back while the menu is open and the loop runs
PressComes ==
    /\ user.mode = "press"
    /\ MenuOnTop
    /\ error = "none"
    /\ user' = [mode |-> "release", presses |-> Min(user.presses + 1, MaxPresses)]

\* the person releases back while the menu is open and the loop runs
ReleaseComes ==
    /\ user.mode = "release"
    /\ MenuOnTop
    /\ error = "none"
    /\ user' = [user EXCEPT !.mode = "press"]

\* a tick with back pressed and nothing else
BackPress == PressComes /\ LoopIteration(MenuGaps, BackPressed, MenuMaxViews)

\* a tick with every button released
BackRelease == ReleaseComes /\ LoopIteration(MenuGaps, Released, MenuMaxViews)

BackNext == BackFetch \/ FreeTick \/ StartBacking \/ BackPress \/ BackRelease

\* The loop iterates for ever, 35 ms apart (lines 116 and 215), and the person
\* keeps to the protocol: while the menu is open the next press, and the next
\* release, comes.  A step of BackNext that changes user as PressComes says is
\* a BackPress tick, and as ReleaseComes says a BackRelease tick.
SpecBack ==
    /\ BackInit
    /\ [][BackNext]_vars
    /\ WF_user(PressComes)
    /\ WF_user(ReleaseComes)

(***************************************************************************)
(* Properties of the view queue and of the buttons, checked under Spec.    *)
(***************************************************************************)
\* a step of the loop: the fetcher and the clock stand still
TickStep == hour' = hour /\ latest_stats' = latest_stats

KindsQueued(heap) == {heap[i].kind : i \in 1..Len(heap)}

KindsPushed(seen) == {seen.pushed[i].kind : i \in 1..Len(seen.pushed)}

\* C1: on every tick the view whose next_frame is called has the least
\* priority number of the views queued at that moment; so a transition view
\* (5) is served before the idle view (9999) and is never served while a menu
\* view (0) is queued.
C1_TopHasMinPriority ==
    last.nf_kind # "none" =>
        /\ last.nf_priority \in last.nf_prios
        /\ \A p \in last.nf_prios : last.nf_priority <= p
        /\ (last.nf_kind = "NormalView" => 5 \notin last.nf_prios)
        /\ (last.nf_priority = 5 => 0 \notin last.nf_prios)

\* the menu view is served while a transition view and the idle view wait
C1_Witness ==
    /\ last.nf_kind = "ServiceMenuView"
    /\ 5 \in last.nf_prios
    /\ 9999 \in last.nf_prios

\* C2: among queued views of equal priority the one pushed earliest is the
\* first to be served: the view whose next_frame is called has no older
\* queued view of its priority.
C2_FifoAmongEquals == last.nf_kind # "none" => last.nf_older = 0

IdleViews(heap) == {i \in 1..Len(heap) : heap[i].kind = "NormalView"}

\* C3: once an idle view is in the queue there is exactly one in every later
\* state: no tick pops it and no second one is pushed.
C3_OneIdleViewForever ==
    [][/\ Cardinality(IdleViews(views')) <= 1
       /\ (Cardinality(IdleViews(views)) = 1 => Cardinality(IdleViews(views')) = 1)]_vars

\* the idle view is served, under it nothing, and stays
C3_Witness ==
    /\ last.nf_kind = "NormalView"
    /\ ~last.popped
    /\ Cardinality(IdleViews(views)) = 1

OmegaFlag(stats) == IF stats = None THEN "absent" ELSE stats.is_omega_shift

\* C6: once the shift is Omega, a tick whose snapshot has is_omega_shift
\* unknown keeps it Omega, and a tick leaves Omega only when its snapshot has
\* is_omega_shift explicitly false.
C6_OmegaSticksOnUnknown ==
    [][(TickStep /\ current_shift = "OMEGA_SHIFT")
       => /\ (OmegaFlag(latest_stats) = "None" => current_shift' = "OMEGA_SHIFT")
          /\ (current_shift' # "OMEGA_SHIFT" => OmegaFlag(latest_stats) = "False")]_vars

\* C7: on a tick with a snapshot, is_omega_shift true makes the shift Omega
\* whatever the clock says, and is_omega_shift false makes it the clock's
\* shift, also when the shift was Omega before.
C7_OmegaFlagDecides ==
    [][TickStep
       => /\ (OmegaFlag(latest_stats) = "True" => current_shift' = "OMEGA_SHIFT")
          /\ (OmegaFlag(latest_stats) = "False"
                => current_shift' = get_current_shift(hour))]_vars

\* a tick with is_omega_shift false has taken the shift from Omega to the
\* clock's shift
C7_Witness ==
    /\ last.old_shift = "OMEGA_SHIFT"
    /\ error = "none"
    /\ OmegaFlag(latest_stats) = "False"
    /\ previous_stats = latest_stats
    /\ current_shift = get_current_shift(hour)

ShiftViewPushed(seen) == \E i \in 1..Len(seen.pushed) : seen.pushed[i].why = "shift"

\* C8: a tick pushes a transition view only if the shift it computes differs
\* from the stored one, the stored one is not Omega, and the shift-animation
\* policy is always, or only-in-season with a live snapshot.
C8_TransitionOnlyOnChange ==
    [][(TickStep /\ ShiftViewPushed(last'))
       => /\ current_shift' # current_shift
          /\ current_shift # "OMEGA_SHIFT"
          /\ \/ get_setting(config, "ShowShiftAnim") = "Always"
             \/ /\ get_setting(config, "ShowShiftAnim") = "OnlyInSeason"
                /\ latest_stats # None
                /\ latest_stats.is_live]_vars

\* a transition view was pushed under the policy only-in-season
C8_Witness ==
    /\ ShiftViewPushed(last)
    /\ get_setting(config, "ShowShiftAnim") = "OnlyInSeason"
    /\ last.old_shift # current_shift

\* the counters in the order make_views_for_events tests them
EventOrder ==
    <<[counter |-> "points", name |-> "Point Get Animation", priority |-> 6],
      [counter |-> "splats", name |-> "Bug Splat Animation", priority |-> 7],
      [counter |-> "stops", name |-> "Bus Stop Animation", priority |-> 8],
      [counter |-> "crashes", name |-> "Crash Animation", priority |-> 9]>>

Increased(e) == ev_curr[e.counter] > ev_prev[e.counter]

\* C9: make_views_for_events returns one view for each counter of points,
\* splats, stops, crashes that is greater in curr than in prev, in that order
\* with priorities 6, 7, 8, 9, and nothing when prev or curr is absent.
C9_OneViewPerIncreasedCounter ==
    ev_result.called =>
        IF ev_prev = None \/ ev_curr = None
        THEN ev_result.views = <<>>
        ELSE LET want == SelectSeq(EventOrder, Increased)
             IN  /\ Len(ev_result.views) = Len(want)
                 /\ \A i \in 1..Len(want) :
                       /\ ev_result.views[i].name = want[i].name
                       /\ ev_result.views[i].priority = want[i].priority

\* points, splats and crashes rose by more than one, stops did not
C9_Witness ==
    /\ ev_result.called
    /\ ev_prev # None
    /\ ev_curr # None
    /\ ev_curr.points > ev_prev.points + 1
    /\ ev_curr.splats > ev_prev.splats + 1
    /\ ev_curr.stops = ev_prev.stops
    /\ ev_curr.crashes > ev_prev.crashes + 1
    /\ Len(ev_result.views) = 3

\* C10: on the tick that sees counters increased, the run live and the event
\* policy always, one event view per increased counter is queued and no
\* error is raised.
C10_EventViewsQueued ==
    last.events # <<>> =>
        /\ error = "none"
        /\ \A i \in 1..Len(last.events) :
              \E j \in 1..Len(views) : views[j].priority = last.events[i]

(***************************************************************************)
(* Properties of the animation sequencer, checked under SpecAnim.          *)
(***************************************************************************)
\* the schedule _prepare_animation made, whole, and its cumulative end time
Schedule == _prepare_animation(anim.frames, anim.call.start).deque

EndTime == Schedule[Len(Schedule)].time

\* the latest entry of the schedule whose timestamp is at or before now
CurrentAt(schedule, now) ==
    LET started == {i \in 1..Len(schedule) : schedule[i].time <= now}
    IN  schedule[CHOOSE i \in started : \A j \in started : j <= i]

\* next_frame has just run on a schedule that no button press has cleared
Advanced ==
    /\ anim.call.op = "next_frame"
    /\ error = "none"
    /\ ~anim.call.cancelled

\* C11: every next_frame call that does not return finished displays the
\* lines of the latest schedule entry whose timestamp is at or before the
\* time of the call.
C11_ShowsCurrentFrame ==
    (Advanced /\ ~anim.call.finished) =>
        LET cf == CurrentAt(Schedule, anim.now)
        IN  anim.call.shown = <<cf.line1, cf.line2>>

\* C12: a next_frame call returns finished exactly if the entry current at
\* the time of the call is the sentinel, that is if the call is made at or
\* after the cumulative end time; it then displays nothing.
C12_FinishedExactlyAtEnd ==
    Advanced =>
        /\ anim.call.finished = (anim.now >= EndTime)
        /\ (anim.now >= EndTime => anim.call.shown = None)

\* C13: for a non-empty frame list that no button press has cleared,
\* next_frame never returns finished at a time before the start plus the sum
\* of all durations.
C13_NeverFinishedEarly ==
    (Advanced /\ anim.frames # <<>> /\ anim.call.finished) => anim.now >= EndTime

\* a list of three frames has finished after calls that passed over frames
C13_Witness ==
    /\ Advanced
    /\ Len(anim.frames) = 3
    /\ anim.call.finished
    /\ anim.call.start > 0
    /\ anim.now > EndTime

\* C14: once next_frame has returned finished, or select has cleared the
\* deque, every later next_frame call returns finished, raises no error,
\* displays nothing and leaves the deque as it found it.
C14_FinishedStaysFinished ==
    (/\ anim.call.op = "next_frame"
     /\ anim.call.prepared
     /\ (anim.call.was_finished \/ anim.call.cancelled))
    => /\ error = "none"
       /\ anim.call.finished
       /\ anim.call.shown = None
       /\ anim.view.anim_deque = anim.call.pre

\* next_frame was called again on a cleared deque after an earlier finish
C14_Witness ==
    /\ anim.call.op = "next_frame"
    /\ anim.call.was_finished
    /\ anim.call.cancelled
    /\ anim.call.finished
    /\ anim.call.pre = <<>>
    /\ Len(anim.frames) >= 2

\* C15: a frame list with a None line is rejected when the view is built:
\* no view holds such a list.
C15_MalformedRejectedAtConstruction ==
    anim.view # None =>
        \A i \in 1..Len(anim.view.anim_sequence) :
            /\ anim.view.anim_sequence[i].line1 # NoLine
            /\ anim.view.anim_sequence[i].line2 # NoLine

(***************************************************************************)
(* Properties of the reads of views[0], checked under Spec.                *)
(***************************************************************************)
\* C16: on every tick with a snapshot the queue is non-empty whenever views[0]
\* is read (lines 175 and 200), and a queue found empty at line 168 has first
\* been seeded with a fresh idle view, which is then views[0].
C16_TopReadOnNonEmptyQueue ==
    /\ error # "IndexError"
    /\ last.seed_len >= 0 =>
          /\ last.hb_len > 0
          /\ last.top_kind # "none"
          /\ last.seed_len = 0 =>
                /\ last.hb_len = 1
                /\ last.top_kind = "NormalView"
                /\ \E i \in 1..Len(last.pushed) : last.pushed[i] = Pushed("idle", NormalView)
    /\ last.nf_kind # "none" => last.nf_prios # {}

\* the tick before popped the last view of the queue, this tick seeded the
\* idle view and served it
C16_Witness ==
    /\ last.prev_popped
    /\ last.seed_len = 0
    /\ last.top_kind = "NormalView"
    /\ last.nf_kind = "NormalView"
    /\ error = "none"

(***************************************************************************)
(* Properties of the service menu, checked under SpecMenu.                 *)
(***************************************************************************)
\* the tick gave the buttons to a service menu with a node on its stack
MenuServed == last.top_kind = "ServiceMenuView" /\ last.menu_pre # <<>>

\* the button went from released to pressed on this tick
Edge(button) ==
    /\ last.buttons[button]
    /\ (last.prev_buttons = None \/ ~last.prev_buttons[button])

TopNode(stack) == stack[Len(stack)]

\* what the tick's handle_buttons did to the menu
BackFired == error = "none" /\ Len(last.menu_post) < Len(last.menu_pre)

SelectFired ==
    \/ error = "TypeError"
    \/ /\ error = "none"
       /\ \/ Len(last.menu_post) > Len(last.menu_pre)
          \/ last.hb_ret = "view"
          \/ /\ Len(last.menu_post) = Len(last.menu_pre)
             /\ TopNode(last.menu_post).save_time_millis = 0

IndexMoved ==
    /\ error = "none"
    /\ Len(last.menu_post) = Len(last.menu_pre)
    /\ TopNode(last.menu_post).current_index # TopNode(last.menu_pre).current_index

SavedLine == "     Saved!     "

\* the tick's next_frame displayed a setting node of the menu
SettingShown ==
    /\ error = "none"
    /\ last.nf_kind = "ServiceMenuView"
    /\ ~last.popped
    /\ TopNode(views[1].menu_stack).type = "SETTING"

\* time since the node's _save_time_millis, as far as the clock tells it
SinceSave(node) == 0 - node.save_time_millis

\* the tick's handle_buttons reached a setting node inside its display window
InSavedWindow ==
    /\ MenuServed
    /\ TopNode(last.menu_pre).type = "SETTING"
    /\ SinceSave(TopNode(last.menu_pre)) < _SAVE_DISPLAY_MILLIS

\* C18: after a select press saved a setting at time t, the setting node shows
\* "Saved!" at every frame in [t, t + 1000 ms) and at no frame from t + 1000 ms
\* on; during the window no button press changes the menu stack, the selection
\* index or the configuration.
C18_SavedWindow ==
    /\ SettingShown =>
          (lcd_message[2] = SavedLine)
              = (SinceSave(TopNode(views[1].menu_stack)) < _SAVE_DISPLAY_MILLIS)
    /\ (error = "none" /\ InSavedWindow) =>
          /\ last.menu_post = last.menu_pre
          /\ config = last.cfg_pre

\* half-way through the window the menu still shows "Saved!" and a press of
\* back changed nothing
C18_Witness ==
    /\ SettingShown
    /\ InSavedWindow
    /\ Edge("back")
    /\ SinceSave(TopNode(views[1].menu_stack)) = 500
    /\ lcd_message[2] = SavedLine
    /\ config # _make_default_config

\* the tick gave a press of select, without back, to a test node
TestSelected ==
    /\ MenuServed
    /\ TopNode(last.menu_pre).type = "TESTS"
    /\ Edge("select")
    /\ ~last.buttons.back

MenuLeft ==
    /\ last.top_kind = "ServiceMenuView"
    /\ last.menu_pre # <<>>
    /\ last.menu_post = <<>>
    /\ last.nf_kind = "ServiceMenuView"
    /\ last.popped
    /\ \A i \in 1..Len(views) : views[i].kind # "ServiceMenuView"

C21_TopLevelNeverLeftAlone ==
    (MenuServed /\ error = "none" /\ Len(last.menu_post) = 1) =>
        /\ last.menu_post = last.menu_pre
        /\ TopNode(last.menu_post).type = "TOPLEVEL"

\* back on the main menu, the only node above the top level, emptied the stack
C21_Witness ==
    /\ MenuServed
    /\ error = "none"
    /\ Len(last.menu_pre) = 2
    /\ last.buttons.back
    /\ last.menu_post = <<>>

\* the tick's handle_buttons reached a setting node outside its display window
SettingServed ==
    /\ MenuServed
    /\ error = "none"
    /\ TopNode(last.menu_pre).type = "SETTING"
    /\ SinceSave(TopNode(last.menu_pre)) >= _SAVE_DISPLAY_MILLIS

\* the option the setting node highlighted when the buttons came
Highlighted ==
    LET node == TopNode(last.menu_pre)
    IN  NodeDef(node.title).options[node.current_index + 1].value

\* C22: in a setting node outside the save window a select press sets the
\* node's key to exactly the highlighted option's value; back, plus and minus
\* presses leave the configuration as it was, and back pops the node.
C22_SelectSavesHighlighted ==
    SettingServed =>
        /\ (Edge("select") /\ ~last.buttons.back) =>
              config = [last.cfg_pre EXCEPT
                           ![NodeDef(TopNode(last.menu_pre).title).key] = Highlighted]
        /\ (~Edge("select") \/ last.buttons.back) => config = last.cfg_pre
        /\ Edge("back") =>
              Len(last.menu_post) < Len(last.menu_pre)

\* select saved an option other than the stored one
C22_Witness ==
    /\ SettingServed
    /\ Edge("select")
    /\ ~last.buttons.back
    /\ config # last.cfg_pre
    /\ config[NodeDef(TopNode(last.menu_pre).title).key] = Highlighted

(***************************************************************************)
(* SpecIdle: the donation line of a NormalView served alone.  Amounts are  *)
(* in cents and times in milliseconds; the snapshot's total changes        *)
(* between frames, and frames come a quarter or half a second apart.       *)
(***************************************************************************)
_COUNTUP_ANIMATION_MILLIS == 1000

\* the clock at construction and the latest time of a frame
IdleStart == 1000
MaxIdleNow == 4000

\* time between two frames of the view, and the totals a snapshot may carry:
\* every interpolated amount is then a whole number of cents
IdleGaps == {250, 500}
DonationTotals == {0, 10000, 15000}

\* round(x, 2) of the amount n/d cents, d positive
round_cents(n, d) == (2 * n + d) \div (2 * d)

\* normal_view.py, lines 145-160: the count-up fields of a new NormalView
NormalView_countup ==
    [_last_stabilized_donations |-> 0, _last_stabilized_time_millis |-> 0]

\* normal_view.py, lines 170-197
_get_displayed_donation_total(self, donation_total, right_now_millis) ==
    IF self._last_stabilized_donations = donation_total
    THEN [self |-> [self EXCEPT !._last_stabilized_time_millis = right_now_millis],
          value |-> donation_total]
    ELSE LET elapsed_time == right_now_millis - self._last_stabilized_time_millis
         IN  IF elapsed_time >= _COUNTUP_ANIMATION_MILLIS
             THEN [self |-> [self EXCEPT
                                !._last_stabilized_time_millis = right_now_millis,
                                !._last_stabilized_donations = donation_total],
                   value |-> donation_total]
             ELSE LET donation_difference ==
                          donation_total - self._last_stabilized_donations
                  IN  [self |-> self,
                       value |-> self._last_stabilized_donations
                                   + round_cents(donation_difference * elapsed_time,
                                                 _COUNTUP_ANIMATION_MILLIS)]

\* normal_view.py, lines 210-257: the donation line of one frame; the two
\* clock readings of a frame (lines 214 and 173) are taken as one
NormalView_donation_frame(self, donation_total, right_now_millis) ==
    LET first == IF self._last_stabilized_time_millis = 0
                 THEN [self EXCEPT !._last_stabilized_time_millis = right_now_millis]
                 ELSE self
    IN  _get_displayed_donation_total(first, donation_total, right_now_millis)

IdleInit ==
    /\ LoopInit(DefaultConfig)
    /\ unset_attr = "unread"
    /\ user = Free
    /\ ThreadInit
    /\ store = NoStore
    /\ ev_prev = None
    /\ ev_curr = None
    /\ ev_result = NoCall
    /\ anim = NoAnim
    /\ idle \in {[view |-> NormalView_countup, now |-> IdleStart, total |-> d,
                  shown |-> None, seen |-> None] : d \in DonationTotals}

\* the fetcher publishes a snapshot with another total
IdleFetch ==
    /\ \E d \in DonationTotals :
          /\ d # idle.total
          /\ idle' = [idle EXCEPT !.total = d]
    /\ UNCHANGED <<hour, latest_stats, views, current_shift, previous_buttons,
                   previous_stats, last_known_lcd_setting, lcd_color, lcd_message,
                   config, error, last, unset_attr, user, thread_vars, store,
                   ev_prev, ev_curr, ev_result, anim>>

\* next_frame of the view, gap ms after its frame before.  seen follows the
\* total the frames saw: since when, from which stabilized amount, and whether
\* the view was stabilized on the total before when the change came
IdleFrame ==
    /\ \E gap \in IdleGaps :
          /\ idle.now + gap <= MaxIdleNow
          /\ LET now == idle.now + gap
                 r == NormalView_donation_frame(idle.view, idle.total, now)
                 changed == [total |-> idle.total, since |-> now,
                             from |-> idle.view._last_stabilized_donations,
                             stable |-> IF idle.seen = None THEN TRUE
                                        ELSE idle.view._last_stabilized_donations
                                                = idle.seen.total]
             IN  idle' = [view |-> r.self, now |-> now, total |-> idle.total,
                          shown |-> r.value,
                          seen |-> IF idle.seen = None THEN changed
                                   ELSE IF idle.seen.total # idle.total THEN changed
                                   ELSE idle.seen]
    /\ UNCHANGED <<hour, latest_stats, views, current_shift, previous_buttons,
                   previous_stats, last_known_lcd_setting, lcd_color, lcd_message,
                   config, error, last, unset_attr, user, thread_vars, store,
                   ev_prev, ev_curr, ev_result, anim>>

IdleNext == IdleFetch \/ IdleFrame

SpecIdle == IdleInit /\ [][IdleNext]_vars

(***************************************************************************)
(* SpecThread: the fetcher thread beside the main loop.  The thread gets   *)
(* a snapshot, then publishes it; it may die at any point.  The loop reads *)
(* the published snapshot (line 117), then runs the rest of the iteration; *)
(* the thread's steps fall before, between and after the two.              *)
(***************************************************************************)
\* most iterations counted after the thread died
MaxDeadTicks == 2

\* what fetcher.get_current_stats returns: two snapshots of the off-season
\* that differ in more than one field
ThreadStats == {VstData(FALSE, "False", 0, 0, 0, 0), VstData(FALSE, "None", 1, 1, 0, 0)}

ThreadButtons == {NoButtons, SelectOnly}

\* some fields are stored before the others
publish_field_by_field(pending_stats, results) ==
    IF pending_stats = None THEN results
    ELSE [results EXCEPT !.splats = pending_stats.splats]

\* fetcher_thread.py, line 51: the reference to the new VstData is stored
publish(pending_stats, results) == results

ThreadInitial == InitWith(DefaultConfig)

\* fetcher_thread.py, line 46: results = fetcher.get_current_stats().  A fetch
\* that returns None or raises leaves everything as it is.
ThreadGets ==
    /\ error = "none"
    /\ fetcher_thread.alive
    /\ fetcher_thread.results = None
    /\ \E s \in ThreadStats : fetcher_thread' = [fetcher_thread EXCEPT !.results = s]
    /\ UNCHANGED <<hour, latest_stats, views, current_shift, previous_buttons,
                   previous_stats, last_known_lcd_setting, lcd_color, lcd_message,
                   config, error, last, unset_attr, user, idle, store, loop_read,
                   is_aware_of_dead_fetcher_thread, critical_logged,
                   ev_prev, ev_curr, ev_result, anim>>

\* fetcher_thread.py, lines 48-52: the snapshot is published
ThreadPublishes ==
    /\ error = "none"
    /\ fetcher_thread.alive
    /\ fetcher_thread.results # None
    /\ latest_stats' = publish(latest_stats, fetcher_thread.results)
    /\ fetcher_thread' = [fetcher_thread EXCEPT !.results = None]
    /\ UNCHANGED <<hour, views, current_shift, previous_buttons,
                   previous_stats, last_known_lcd_setting, lcd_color, lcd_message,
                   config, error, last, unset_attr, user, idle, store, loop_read,
                   is_aware_of_dead_fetcher_thread, critical_logged,
                   ev_prev, ev_curr, ev_result, anim>>

\* the thread stops running: t.is_alive() is false from here on
ThreadDies ==
    /\ error = "none"
    /\ fetcher_thread.alive
    /\ fetcher_thread' = [alive |-> FALSE, results |-> None]
    /\ UNCHANGED <<hour, latest_stats, views, current_shift, previous_buttons,
                   previous_stats, last_known_lcd_setting, lcd_color, lcd_message,
                   config, error, last, unset_attr, user, idle, store, loop_read,
                   is_aware_of_dead_fetcher_thread, critical_logged,
                   ev_prev, ev_curr, ev_result, anim>>

\* dbpibus.py, line 117: latest_stats = t.latest_stats
LoopReads ==
    /\ error = "none"
    /\ ~loop_read.read
    /\ loop_read' = [loop_read EXCEPT !.read = TRUE, !.latest_stats = latest_stats]
    /\ UNCHANGED <<hour, latest_stats, views, current_shift, previous_buttons,
                   previous_stats, last_known_lcd_setting, lcd_color, lcd_message,
                   config, error, last, unset_attr, user, idle, store, fetcher_thread,
                   is_aware_of_dead_fetcher_thread, critical_logged,
                   ev_prev, ev_curr, ev_result, anim>>

\* dbpibus.py, lines 118-215: the rest of the iteration, on what line 117 read
LoopRuns ==
    /\ loop_read.read
    /\ LoopIterationOn(loop_read.latest_stats, MenuGaps, ThreadButtons, MenuMaxViews)
    /\ loop_read' = [loop_read EXCEPT
                        !.read = FALSE,
                        !.dead_ticks = IF fetcher_thread.alive THEN 0
                                       ELSE Min(loop_read.dead_ticks + 1, MaxDeadTicks)]
    /\ UNCHANGED user

ThreadNext == ThreadGets \/ ThreadPublishes \/ ThreadDies \/ LoopReads \/ LoopRuns

SpecThread == ThreadInitial /\ [][ThreadNext]_vars

(***************************************************************************)
(* SpecClock: the loop through a day, hour by hour, before any snapshot    *)
(* has come: every iteration classifies the hour anew.                     *)
(***************************************************************************)
ClockInit == InitWith(DefaultConfig)

\* the wall clock reaches the next hour
HourPasses ==
    /\ error = "none"
    /\ hour' = (hour + 1) % 24
    /\ UNCHANGED <<latest_stats, views, current_shift, previous_buttons,
                   previous_stats, last_known_lcd_setting, lcd_color, lcd_message,
                   config, error, last, unset_attr, user, idle, thread_vars, store,
                   ev_prev, ev_curr, ev_result, anim>>

ClockTick == TickWith(MenuGaps, Buttons, ShiftMaxViews)

ClockNext == HourPasses \/ ClockTick

SpecClock == ClockInit /\ [][ClockNext]_vars

(***************************************************************************)
(* SpecConfig: the config store alone.  The file holds a JSON object, or   *)
(* is missing; load_config is called once, then set_setting with any key   *)
(* and any value, each call's exception caught by the caller.              *)
(***************************************************************************)
\* every value of an enum of config.py, and one that is none
SettingValues ==
    ShiftAnim \cup EventAnim \cup LcdColor \cup ShowTime \cup TimeFormat
        \cup DateFormat \cup PointsCrashes \cup {"Bogus"}

SettingKeys == ConfigKey \cup {"NoSuchKey"}

\* what the file may hold at the start: nothing, an empty object, valid
\* entries, values of no enum, values of another key's enum, a whole config
ConfigFiles ==
    {None,
     [k \in {} |-> "Bogus"],
     [k \in {"ShowShiftAnim"} |-> "Never"],
     [k \in {"ShowShiftAnim", "LcdColor"} |->
         IF k = "ShowShiftAnim" THEN "Bogus" ELSE "OmegaShift"],
     [k \in {"LcdColor", "TimeFormat"} |-> IF k = "LcdColor" THEN "Always" ELSE "24Hour"],
     [k \in ConfigKey |-> IF k = "DateFormat" THEN "12Hour" ELSE _make_default_config[k]]}

\* config.py, line 102: _current_config = None, beside some file
ConfigInit ==
    /\ LoopInit({None})
    /\ unset_attr = "unread"
    /\ user = Free
    /\ idle = NoIdle
    /\ ThreadInit
    /\ store \in {[NoStore EXCEPT !.file = f] : f \in ConfigFiles}
    /\ ev_prev = None
    /\ ev_curr = None
    /\ ev_result = NoCall
    /\ anim = NoAnim

\* config.py, lines 138-202
LoadConfig ==
    /\ config = None
    /\ config' = load_config(store.file)
    /\ store' = [store EXCEPT !.call = "load"]
    /\ UNCHANGED <<hour, latest_stats, views, current_shift, previous_buttons,
                   previous_stats, last_known_lcd_setting, lcd_color, lcd_message,
                   error, last, unset_attr, user, idle, thread_vars,
                   ev_prev, ev_curr, ev_result, anim>>

\* config.py, lines 218-225 and 204-216: set_setting, and the file save_config
\* writes when nothing was raised
SetSetting ==
    /\ config # None
    /\ \E key \in SettingKeys, value \in SettingValues :
          \E r \in {set_setting(config, key, value)} :
             /\ config' = r.config
             /\ store' = [file |-> IF r.error = "none" THEN r.config ELSE store.file,
                          call |-> "set",
                          raised |-> r.error,
                          valid |-> key \in ConfigKey /\ value \in EnumOf(key),
                          unchanged |-> r.config = config]
    /\ UNCHANGED <<hour, latest_stats, views, current_shift, previous_buttons,
                   previous_stats, last_known_lcd_setting, lcd_color, lcd_message,
                   error, last, unset_attr, user, idle, thread_vars,
                   ev_prev, ev_curr, ev_result, anim>>

ConfigNext == LoadConfig \/ SetSetting

SpecConfig == ConfigInit /\ [][ConfigNext]_vars

(***************************************************************************)
(* The count-up of the donation line, checked under SpecIdle.              *)
(***************************************************************************)
\* time since the frame that first saw the total now shown
SinceSeen == idle.now - idle.seen.since

\* C23: when the total changes from the stabilized amount S to T, the frame e
\* ms after the one that first saw the change shows S + (T - S) * e / 1000
\* while e < 1000, and T from the first frame with e >= 1000 on, the view
\* then being stabilized on T.
C23_CountUpFromFirstObservation ==
    (idle.seen # None /\ idle.seen.stable) =>
        /\ SinceSeen < 1000 =>
              idle.shown = idle.seen.from
                  + round_cents((idle.seen.total - idle.seen.from) * SinceSeen, 1000)
        /\ SinceSeen >= 1000 =>
              /\ idle.shown = idle.seen.total
              /\ idle.view._last_stabilized_donations = idle.seen.total

(***************************************************************************)
(* Ticks before the first snapshot, checked under Spec.                    *)
(***************************************************************************)
\* the latest tick found no snapshot: the fetcher has published none so far
NullTick == last # NoTick /\ latest_stats = None

\* C24: a tick on a null snapshot raises no error and serves no view: none
\* gets handle_buttons or next_frame, none is popped, nothing is seeded, and
\* the display keeps the placeholder text.
C24_NullSnapshotServesNoView ==
    NullTick =>
        /\ error = "none"
        /\ last.top_kind = "none"
        /\ last.hb_ret = "none"
        /\ last.nf_kind = "none"
        /\ ~last.popped
        /\ last.seed_len = 0 - 1
        /\ previous_stats = None
        /\ lcd_message = <<"Your driver is: ", "     JOCKO      ">>

\* a null tick with select held and a shift view waiting in the queue
C24_Witness ==
    /\ NullTick
    /\ last.buttons.select
    /\ views # <<>>
    /\ last.pushed # <<>>

(***************************************************************************)
(* The loop beside the fetcher thread, checked under SpecThread.           *)
(***************************************************************************)
\* the loop has ended an iteration and has not begun the next
LoopRan == last # NoTick /\ ~loop_read.read

C26_DeadFetcherLoggedOnce ==
    /\ critical_logged <= 1
    /\ fetcher_thread.alive => critical_logged = 0 /\ ~is_aware_of_dead_fetcher_thread
    /\ (loop_read.dead_ticks >= 1 /\ error = "none") =>
          /\ is_aware_of_dead_fetcher_thread
          /\ critical_logged = 1
    /\ (loop_read.dead_ticks >= 1 /\ error = "none" /\ LoopRan
           /\ loop_read.latest_stats # None) =>
          /\ previous_stats = loop_read.latest_stats
          /\ last.nf_kind # "none"
    /\ (loop_read.dead_ticks = MaxDeadTicks /\ LoopRan) =>
          loop_read.latest_stats = latest_stats

\* the second iteration after the thread's death has served a view
C26_Witness ==
    /\ loop_read.dead_ticks = MaxDeadTicks
    /\ LoopRan
    /\ error = "none"
    /\ critical_logged = 1
    /\ latest_stats # None
    /\ last.nf_kind # "none"

(***************************************************************************)
(* The shift of every hour, checked under SpecClock.                       *)
(***************************************************************************)
\* the table of shifts by hour
ShiftAt(hr) ==
    CASE hr \in 0..5 -> "ZETA_SHIFT"
      [] hr \in 6..11 -> "DAWN_GUARD"
      [] hr \in 12..17 -> "ALPHA_FLIGHT"
      [] hr \in 18..23 -> "NIGHT_WATCH"

\* C27: get_current_shift maps every hour 0..23 to exactly one shift, 0-5 to
\* Zeta, 6-11 to Dawn Guard, 12-17 to Alpha Flight and 18-23 to Night Watch,
\* never to Omega; so does every iteration of the loop that classifies the hour.
C27_EveryHourHasItsShift ==
    /\ [](/\ hour \in 0..23
          /\ get_current_shift(hour) = ShiftAt(hour)
          /\ get_current_shift(hour) # "OMEGA_SHIFT")
    /\ [][hour' = hour => current_shift' = ShiftAt(hour)]_vars

\* an iteration in the hour 6 has left Zeta for Dawn Guard
C27_Witness ==
    /\ hour = 6
    /\ last # NoTick
    /\ last.old_shift = "ZETA_SHIFT"
    /\ current_shift = "DAWN_GUARD"

(***************************************************************************)
(* The settings, checked under SpecConfig.                                 *)
(***************************************************************************)
\* what load_config is to leave under key k for the file it read
LoadedValue(k) ==
    IF store.file = None THEN _make_default_config[k]
    ELSE IF k \in DOMAIN store.file /\ store.file[k] \in EnumOf(k) THEN store.file[k]
    ELSE _make_default_config[k]

\* C28: after load_config, and after every set_setting call since, get_setting
\* gives each of the nine keys a value of the key's enum: load_config puts the
\* default where the file has no value or an invalid one, and set_setting
\* raises on an invalid value, and only then, leaving the config as it was.
C28_SettingsStayValid ==
    config # None =>
        /\ DOMAIN config = ConfigKey
        /\ \A k \in ConfigKey : get_setting(config, k) \in EnumOf(k)
        /\ store.call = "load" => \A k \in ConfigKey : config[k] = LoadedValue(k)
        /\ store.call = "set" =>
              /\ (store.raised # "none") <=> ~store.valid
              /\ ~store.valid => store.unchanged

\* an invalid value was refused after settings had been changed
C28_Witness ==
    /\ config # None
    /\ store.call = "set"
    /\ store.raised = "ValueError"
    /\ store.unchanged
    /\ config # _make_default_config

(***************************************************************************)
(* Views that hand over, checked under SpecMenu.                           *)
(***************************************************************************)
\* C29: a view whose handle_buttons returned a view on an iteration is not
\* popped on that iteration: it is still views[0], or waits below what the
\* iteration pushed.
C29_ReplacingViewNotPopped ==
    (last.hb_ret = "view" /\ error = "none") =>
        /\ ~last.popped
        /\ Len(views) >= last.hb_len
        /\ \E i \in 1..Len(views) : views[i].kind = last.top_kind

\* the menu returned a test view and stays in the queue
C29_Witness ==
    /\ last.hb_ret = "view"
    /\ error = "none"
    /\ last.top_kind = "ServiceMenuView"
    /\ views[1].kind = "ServiceMenuView"

(***************************************************************************)
(* The closing entry of a schedule, checked under SpecAnim.                *)
(***************************************************************************)
\* the entry with None lines that ends the schedule, and the frame before it
Sentinel == Schedule[Len(Schedule)]

LastFrame == Schedule[Len(Schedule) - 1]

\* C30, as stated: the trailing sentinel entry carries the same timestamp as
\* the last real frame of the schedule.
C30_SentinelStampedAsLastFrame ==
    (anim.call.prepared /\ anim.frames # <<>>) => Sentinel.time = LastFrame.time

\* C30: the trailing sentinel entry has None lines and carries the timestamp
\* of the last real frame plus that frame's duration, which is the end of the
\* schedule; after no frame at all it carries the start time.
C30_SentinelStampedAtEnd ==
    anim.call.prepared =>
        /\ Len(Schedule) = Len(anim.frames) + 1
        /\ Sentinel.line1 = NoLine
        /\ Sentinel.line2 = NoLine
        /\ Sentinel.time = IF anim.frames = <<>> THEN anim.call.start
                           ELSE LastFrame.time + anim.frames[Len(anim.frames)].duration

\* a schedule of three frames was prepared at a later time than 0
C30_Witness ==
    /\ anim.call.prepared
    /\ error = "none"
    /\ Len(anim.frames) = 3
    /\ anim.call.start > 0
    /\ Sentinel.time > LastFrame.time

(***************************************************************************)
(* The whole schedule, checked under SpecAnim.                             *)
(***************************************************************************)
\* the sum of the durations of the frames before frame i
RECURSIVE DurationsBefore(_, _)
DurationsBefore(frames, i) ==
    IF i <= 1 THEN 0 ELSE DurationsBefore(frames, i - 1) + frames[i - 1].duration

\* C31: for a frame list without None lines _prepare_animation yields one
\* entry per frame, in order, entry i stamped start plus the durations of the
\* frames before i, the timestamps never decreasing, and after them exactly
\* one sentinel entry with None lines.
C31_ScheduleIsCumulative ==
    anim.call.prepared =>
        /\ Len(Schedule) = Len(anim.frames) + 1
        /\ \A i \in 1..Len(anim.frames) :
              /\ Schedule[i].line1 = anim.frames[i].line1
              /\ Schedule[i].line2 = anim.frames[i].line2
              /\ Schedule[i].time = anim.call.start + DurationsBefore(anim.frames, i)
              /\ Schedule[i].time <= Schedule[i + 1].time
        /\ {i \in 1..Len(Schedule) : Schedule[i].line1 = NoLine \/ Schedule[i].line2 = NoLine}
              = {Len(Schedule)}

\* three frames of different durations were prepared at a time after 0
C31_Witness ==
    /\ anim.call.prepared
    /\ error = "none"
    /\ Len(anim.frames) = 3
    /\ anim.frames[1].duration # anim.frames[2].duration
    /\ anim.call.start > 0
    /\ Schedule[3].time = anim.call.start + anim.frames[1].duration + anim.frames[2].duration

(***************************************************************************)
(* Going down the menu, checked under SpecMenu.                            *)
(***************************************************************************)
\* select was pressed, without back, on a top level or a container node
SelectOnBranch ==
    /\ MenuServed
    /\ error = "none"
    /\ Edge("select")
    /\ ~last.buttons.back
    /\ TopNode(last.menu_pre).type \in {"TOPLEVEL", "CONTAINER"}

\* the title of the node select is to open from the node on top
OpenedTitle ==
    LET node == TopNode(last.menu_pre)
    IN  IF node.type = "TOPLEVEL" THEN "Main Menu"
        ELSE NodeDef(node.title).children[node.current_index + 1]

\* C32: a select press on TopLevel pushes the Main Menu container, and one on
\* a container pushes the node inflated from the child at the container's
\* current index; the stack grows by exactly one node, those below unchanged.
C32_SelectPushesChild ==
    SelectOnBranch =>
        /\ Len(last.menu_post) = Len(last.menu_pre) + 1
        /\ SubSeq(last.menu_post, 1, Len(last.menu_pre)) = last.menu_pre
        /\ TopNode(last.menu_post).title = OpenedTitle
        /\ TopNode(last.menu_post).type = NodeDef(OpenedTitle).type
        /\ TopNode(last.menu_post).type # "SETTING" =>
              TopNode(last.menu_post).current_index = 0
        /\ TopNode(last.menu_post).type = "SETTING" =>
              NodeDef(OpenedTitle).options[TopNode(last.menu_post).current_index + 1].value
                  = last.cfg_pre[NodeDef(OpenedTitle).key]

\* select on the second child of a container opened that child
C32_Witness ==
    /\ SelectOnBranch
    /\ TopNode(last.menu_pre).type = "CONTAINER"
    /\ TopNode(last.menu_pre).current_index = 1
    /\ Len(last.menu_post) = Len(last.menu_pre) + 1
    /\ TopNode(last.menu_post).title = OpenedTitle

(***************************************************************************)
(* Moving the selection, checked under SpecMenu.                           *)
(***************************************************************************)
\* how many entries the node of this title selects from
NodeSize(title) ==
    LET d == NodeDef(title)
    IN  CASE d.type = "CONTAINER" -> Len(d.children)
          [] d.type = "SETTING" -> Len(d.options)
          [] d.type = "TESTS" -> Len(d.tests)

\* every node on the menu stacks of the views
MenuNodes ==
    UNION { {views[v].menu_stack[i] : i \in 1..Len(views[v].menu_stack)} :
            v \in 1..Len(views) }

\* the tick's handle_buttons reached a node with a selection, and of the four
\* buttons only this one was down, freshly pressed
SinglePress(button, buttons) ==
    /\ MenuServed
    /\ error = "none"
    /\ TopNode(last.menu_pre).type \in {"CONTAINER", "SETTING", "TESTS"}
    /\ last.buttons = buttons
    /\ Edge(button)

\* the selection of the node on top went from where it was to index
SelectionWent(index) ==
    /\ Len(last.menu_post) = Len(last.menu_pre)
    /\ TopNode(last.menu_post).title = TopNode(last.menu_pre).title
    /\ TopNode(last.menu_post).current_index = index

SelectionBefore == TopNode(last.menu_pre).current_index

SelectionSize == NodeSize(TopNode(last.menu_pre).title)

SelectionInRange ==
    \A node \in MenuNodes :
        node.type # "TOPLEVEL" => node.current_index \in 0..NodeSize(node.title) - 1

\* C33 as stated: in container, setting and test nodes the index stays within
\* 0..n-1; plus on the last entry wraps to 0, minus on 0 wraps to n-1, and any
\* other single press moves the index by exactly one.
C33_EveryPressMovesByOne ==
    /\ SelectionInRange
    /\ SinglePress("plus", PlusOnly) =>
          SelectionWent(IF SelectionBefore = SelectionSize - 1 THEN 0
                        ELSE SelectionBefore + 1)
    /\ SinglePress("minus", MinusOnly) =>
          SelectionWent(IF SelectionBefore = 0 THEN SelectionSize - 1
                        ELSE SelectionBefore - 1)

\* C33: as amended: the index stays within 0..n-1; outside a setting node's
\* "Saved!" window plus on the last entry wraps to 0, minus on 0 wraps to n-1
\* and any other single press moves the index by exactly one; inside the
\* window a press leaves the index where it is.
C33_PressMovesByOneOutsideSavedWindow ==
    /\ SelectionInRange
    /\ (SinglePress("plus", PlusOnly) /\ ~InSavedWindow) =>
          SelectionWent(IF SelectionBefore = SelectionSize - 1 THEN 0
                        ELSE SelectionBefore + 1)
    /\ (SinglePress("minus", MinusOnly) /\ ~InSavedWindow) =>
          SelectionWent(IF SelectionBefore = 0 THEN SelectionSize - 1
                        ELSE SelectionBefore - 1)
    /\ ((SinglePress("plus", PlusOnly) \/ SinglePress("minus", MinusOnly)) /\ InSavedWindow) =>
          SelectionWent(SelectionBefore)

\* minus on the first of three or more entries went to the last one
C33_Witness ==
    /\ SinglePress("minus", MinusOnly)
    /\ ~InSavedWindow
    /\ SelectionBefore = 0
    /\ SelectionSize >= 3
    /\ SelectionWent(SelectionSize - 1)

\* plus on the last entry went to the first one
C33_WitnessPlus ==
    /\ SinglePress("plus", PlusOnly)
    /\ ~InSavedWindow
    /\ SelectionBefore = SelectionSize - 1
    /\ SelectionWent(0)

\* a press inside the window was ignored
C33_WitnessWindow ==
    /\ SinglePress("plus", PlusOnly)
    /\ InSavedWindow
    /\ SelectionWent(SelectionBefore)

(***************************************************************************)
(* Select on an animation view that has waited in the queue.               *)
(***************************************************************************)
AnimationKinds == {"SimpleAnimationView", "ServiceCreditView"}

\* an animation view is first in the queue and next_frame has not been
\* called on it: its _anim_deque is still None
WaitingOnTop ==
    /\ error = "none"
    /\ Len(views) > 0
    /\ views[1].kind \in AnimationKinds
    /\ views[1].anim_is_none

\* C34: a select press on an animation view that is on top without having had
\* next_frame called does not fail: the view is cancelled and reports complete
\* on its next next_frame, which is that of the same tick.
C34_SelectOnWaitingViewCancels ==
    [][(/\ WaitingOnTop
        /\ hour' = hour /\ latest_stats' = latest_stats
        /\ last'.hb_len = Len(views)
        /\ last'.top_kind = views[1].kind
        /\ last'.buttons.select
        /\ (views[1].prev = None \/ ~views[1].prev.select))
       => (/\ error' = "none"
           /\ last'.popped
           /\ last'.nf_kind = views[1].kind
           /\ Len(views') = Len(views) - 1)]_vars

(***************************************************************************)
(* Select on an animation view that is playing, checked under Spec.        *)
(***************************************************************************)
\* a SimpleAnimationView with a prepared schedule is first in the queue
PlayingOnTop ==
    /\ error = "none"
    /\ latest_stats # None
    /\ Len(views) > 0
    /\ views[1].kind = "SimpleAnimationView"
    /\ ~views[1].anim_is_none
    /\ views[1].anim_deque # <<>>

\* the loop runs an iteration in which select goes from released to pressed
SelectRises ==
    /\ hour' = hour
    /\ latest_stats' = latest_stats
    /\ last'.buttons.select
    /\ (previous_buttons = None \/ ~previous_buttons.select)

\* the views the iteration pushed for this reason
PushedFor(why) == {i \in 1..Len(last'.pushed) : last'.pushed[i].why = why}

\* C35: on a tick where select has a rising edge while a SimpleAnimationView
\* with a prepared schedule is on top, the schedule is emptied, next_frame
\* returns complete on that tick and the view is popped; the view consumes the
\* press, so the global policy opens no menu on that tick.
C35_SelectCancelsPlayingView ==
    [][(PlayingOnTop /\ SelectRises)
       => (/\ error' = "none"
           /\ last'.top_kind = "SimpleAnimationView"
           /\ last'.hb_ret = "True"
           /\ last'.nf_kind = "SimpleAnimationView"
           /\ last'.popped
           /\ PushedFor("policy") = {}
           /\ Len(views') = Len(views) - 1 + Len(last'.pushed)
           /\ \A i \in 1..Len(views') :
                 views'[i].kind = "SimpleAnimationView" => views'[i].anim_is_none)]_vars

\* a fresh select press reached a playing SimpleAnimationView, which was
\* popped on that tick while no menu was opened
C35_Witness ==
    /\ error = "none"
    /\ last.top_kind = "SimpleAnimationView"
    /\ Edge("select")
    /\ last.hb_ret = "True"
    /\ last.nf_kind = "SimpleAnimationView"
    /\ last.popped
    /\ \A i \in 1..Len(last.pushed) : last.pushed[i].why # "policy"

(***************************************************************************)
(* Back on the service credit view, checked under Spec.                    *)
(***************************************************************************)
\* the tick's handle_buttons reached a ServiceCreditView, which prepared its
\* animation anew
CreditRestarted ==
    /\ error = "none"
    /\ last.top_kind = "ServiceCreditView"
    /\ last.buttons.back
    /\ last.hb_ret = "True"

AnimationOf(view) ==
    IF view.kind = "ServiceCreditView" THEN _generate_animation ELSE view.anim_sequence

\* no queued view has had its schedule prepared
NonePrepared == \A i \in 1..Len(views) : views[i].anim_is_none

\* the loop runs an iteration that calls next_frame on an animation view; with
\* NonePrepared before, it is the first call on that view
FirstFrame ==
    /\ error = "none"
    /\ NonePrepared
    /\ hour' = hour
    /\ latest_stats' = latest_stats
    /\ error' = "none"
    /\ last'.nf_kind \in AnimationKinds

\* C37: an animation view's schedule is anchored at the time of its first
\* next_frame call, not at its construction or push: on that call the view
\* shows its first frame and its schedule runs for the full duration from then.
C37_AnchoredAtFirstFrame ==
    [][FirstFrame
       => (/\ ~last'.popped
           /\ views'[1].kind = last'.nf_kind
           /\ ~views'[1].anim_is_none
           /\ views'[1].anim_deque = _prepare_animation(AnimationOf(views'[1]), 0).deque
           /\ lcd_message' = << AnimationOf(views'[1])[1].line1,
                                AnimationOf(views'[1])[1].line2 >>)]_vars

\* a view pushed on an earlier tick came to the top after a pop and was
\* anchored on this tick, its end a full duration ahead
C37_Witness ==
    /\ error = "none"
    /\ last.pushed = <<>>
    /\ last.prev_popped
    /\ last.nf_kind = "SimpleAnimationView"
    /\ ~last.popped
    /\ views[1].anim_deque = _prepare_animation(views[1].anim_sequence, 0).deque
    /\ views[1].anim_deque[Len(views[1].anim_deque)].time
          = views[1].anim_sequence[1].duration + views[1].anim_sequence[2].duration
    /\ lcd_message = <<views[1].anim_sequence[1].line1, views[1].anim_sequence[1].line2>>

(***************************************************************************)
(* One snapshot, many ticks: the game's events, checked under SpecShift.   *)
(***************************************************************************)
\* the loop runs an iteration on a snapshot
SnapshotTick ==
    /\ hour' = hour
    /\ latest_stats' = latest_stats
    /\ latest_stats # None
    /\ error = "none"

ColorConfigs == {_make_default_config, ConfigWith("Always", "Always", "DawnGuard")}

ColorStats == {VstData(TRUE, "False", 0, 0, 0, 0), VstData(TRUE, "True", 0, 0, 0, 0)}

ColorButtons == {NoButtons, SelectOnly, PlusOnly}

ColorInit == InitWith(ColorConfigs)

ColorFetch == FetchFrom(ColorStats)

ColorTick == TickWith(MenuGaps, ColorButtons, ShiftMaxViews)

ColorNext == ColorFetch \/ ClockAdvance \/ ColorTick

SpecColor == ColorInit /\ [][ColorNext]_vars

\* the LCD colour policy the last tick read at its start
PolicyRead == get_setting(last.cfg_pre, "LcdColor")

\* C39: after the colour steps of every tick the backlight is the colour of
\* the fixed shift named by the LCD colour policy read on that tick or, under
\* the current-shift policy, the colour of the effective shift stored as
\* current_shift at the end of the tick; a shift change under a fixed-shift
\* policy leaves the colour unchanged.
C39_BacklightFollowsPolicy ==
    /\ [](last # NoTick =>
            lcd_color = IF PolicyRead = "CurrentShift"
                        THEN SCREEN_COLORS(current_shift)
                        ELSE SCREEN_COLORS(config_shift_to_data_shift(PolicyRead)))
    /\ [][(/\ current_shift' # current_shift
           /\ get_setting(config, "LcdColor") # "CurrentShift"
           /\ get_setting(config, "LcdColor") = last_known_lcd_setting)
          => lcd_color' = lcd_color]_vars

\* the policy was set to a fixed shift through the menu, and a later tick saw
\* the shift change to another one while the colour stayed the fixed shift's
C39_Witness ==
    /\ last # NoTick
    /\ error = "none"
    /\ PolicyRead \notin {"CurrentShift", "DawnGuard"}
    /\ last.old_shift # current_shift
    /\ lcd_color = SCREEN_COLORS(config_shift_to_data_shift(PolicyRead))
    /\ lcd_color # SCREEN_COLORS(current_shift)

\* under the current-shift policy the run entered Omega and the colour followed
C39_WitnessOmega ==
    /\ last # NoTick
    /\ PolicyRead = "CurrentShift"
    /\ last.old_shift # "OMEGA_SHIFT"
    /\ current_shift = "OMEGA_SHIFT"
    /\ lcd_color = SCREEN_COLORS("OMEGA_SHIFT")

(***************************************************************************)
(* SpecQuiet: the queue drains.  First anything happens: buttons, shift    *)
(* boundaries, the first snapshot.  Then all is quiet: no button is down,  *)
(* the clock stays within the shift, the snapshot stays as it is, and the  *)
(* loop, which never stops iterating (while True, line 116), ticks on.     *)
(***************************************************************************)
QuietInit == InitWith(AlwaysConfig)

QuietFetch == user.mode = "free" /\ FetchFrom(LiveStats)

QuietClock == user.mode = "free" /\ ClockAdvance

LivelyTick == user.mode = "free" /\ TickWith(TickGaps, Buttons, MaxViews)

\* no ServiceMenuView is queued
NoMenuQueued == \A i \in 1..Len(views) : views[i].kind # "ServiceMenuView"

\* from here on nothing but ticks: there is a snapshot, no menu is queued, and
\* the shift the next tick resolves is the one the loop has stored
GoQuiet ==
    /\ user.mode = "free"
    /\ error = "none"
    /\ latest_stats # None
    /\ NoMenuQueued
    /\ current_shift = resolve_now_shift(latest_stats, hour)
    /\ user' = [mode |-> "quiet", presses |-> 0]
    /\ UNCHANGED <<hour, latest_stats, views, current_shift, previous_buttons,
                   previous_stats, last_known_lcd_setting, lcd_color, lcd_message,
                   config, error, last, unset_attr, idle, thread_vars, store, ev_prev, ev_curr, ev_result, anim>>

\* the loop comes round again; presses, which no button feeds in this phase,
\* tells one iteration from the next
TickComes ==
    /\ user.mode = "quiet"
    /\ error = "none"
    /\ user' = [user EXCEPT !.presses = 1 - @]

\* a tick with every button released, some time after the one before
QuietTick == TickComes /\ LoopIteration(TickGaps, Released, MaxViews)

QuietNext == QuietFetch \/ QuietClock \/ LivelyTick \/ GoQuiet \/ QuietTick

\* A step of QuietNext that changes user as TickComes says is a QuietTick.
SpecQuiet ==
    /\ QuietInit
    /\ [][QuietNext]_vars
    /\ WF_user(TickComes)

\* the idle view is the only view queued and has been served
IdleAlone ==
    /\ error = "none"
    /\ Len(views) = 1
    /\ views[1].kind = "NormalView"
    /\ last.nf_kind = "NormalView"

\* the run ended on the idle view's first read of its _previous_buttons
EndedOnUnsetRead ==
    /\ error = "AttributeError"
    /\ last.top_kind = "NormalView"
    /\ last.read_unset

C40_WitnessSeeded ==
    /\ user.mode = "quiet"
    /\ IdleAlone
    /\ last.prev_popped
    /\ last.seed_len = 0

\* two animation views were queued when the quiet phase began
C40_WitnessTwoQueued ==
    /\ user.mode = "quiet"
    /\ user.presses = 0
    /\ last.nf_kind # "none"
    /\ Cardinality({i \in 1..Len(views) : views[i].kind \in AnimationKinds}) >= 2

====
